---- MODULE Spec2Model ----
(***************************************************************************)
(* Model of the canonical feature pipeline (src/src/canonical_preprocess.py)*)
(* and of the inference facade (src/src/inference.py,                      *)
(* src/src/similarity_finder.py) of the Shark Tank intelligence platform.  *)
(*                                                                         *)
(* A DataFrame is a record                                                 *)
(*   [cols |-> sequence of column names (the column order),                *)
(*    dt   |-> dtype of each column: "num", "obj" or "bool",               *)
(*    n    |-> number of rows,                                             *)
(*    val  |-> for each column its sequence of n cells].                   *)
(* Cells of a "num" column are integers or NaN, cells of an "obj" column   *)
(* are strings or NA (Python's None).  Numeric feature inputs are drawn    *)
(* from even numbers, so that the midpoint a median takes of two entries   *)
(* is again an integer.                                                    *)
(***************************************************************************)
EXTENDS Integers, Sequences, FiniteSets, TLC

VARIABLES
    pandas_bool,   \* TRUE: get_dummies yields bool columns (pandas >= 2), FALSE: uint8
    stage,         \* pipeline: "init", "fitted" or "transformed"
    art,           \* pipeline: the state captured by the last fit run
    rec,           \* pipeline: the record of the last transform-only run
    out,           \* pipeline: what the last transform-only run returned
    mv_in,         \* missing values: the batch given to handle_missing_values_canonical
    mv_out,        \* missing values: what it returned
    store,         \* facade: the artifacts on disk, (country, model type) -> present
    call,          \* facade: the last call, its arguments and what the models did
    result         \* facade: what the last call returned or raised

vars == <<pandas_bool, stage, art, rec, out, mv_in, mv_out, store, call, result>>

(***************************************************************************)
(* Bounds of the model.                                                    *)
(***************************************************************************)
MaxRows == 2       \* rows of a training batch given to the fit pipeline
MaxBatch == 3      \* rows of a batch given to handle_missing_values_canonical
MaxSharks == 3     \* investor models of an investor artifact
MaxTopN == 2       \* top_n of a similarity query
MaxRecords == 2    \* records of a batch given to the transform-only pipeline

\* np.nan in a numeric column (numeric inputs are >= 0).
NaN == -1
\* None in an object column.
NA == "<NA>"

(***************************************************************************)
(* Sequences and data frames.                                              *)
(***************************************************************************)
Range(s) == {s[i] : i \in DOMAIN s}
InSeq(x, s) == \E i \in DOMAIN s : s[i] = x

RECURSIVE SumSeq(_)
SumSeq(s) == IF s = <<>> THEN 0 ELSE Head(s) + SumSeq(Tail(s))

RECURSIVE SetToSeq(_)
SetToSeq(S) == IF S = {} THEN <<>>
               ELSE LET x == CHOOSE y \in S : TRUE IN <<x>> \o SetToSeq(S \ {x})

\* Ascending sort of a sequence of integers.
RECURSIVE SortAsc(_)
SortAsc(s) ==
    IF s = <<>> THEN <<>>
    ELSE LET m == CHOOSE i \in DOMAIN s : \A j \in DOMAIN s : s[i] <= s[j]
             rest == [k \in 1..(Len(s) - 1) |-> IF k < m THEN s[k] ELSE s[k + 1]]
         IN <<s[m]>> \o SortAsc(rest)

EndsWith(str, suffix) ==
    /\ Len(str) >= Len(suffix)
    /\ SubSeq(str, Len(str) - Len(suffix) + 1, Len(str)) = suffix

StartsWith(str, prefix) ==
    /\ Len(str) >= Len(prefix)
    /\ SubSeq(str, 1, Len(prefix)) = prefix

EmptyDF(n) == [cols |-> <<>>, dt |-> <<>>, n |-> n, val |-> <<>>]

HasCol(df, c) == InSeq(c, df.cols)

\* df[c] = column: overwrites in place, or appends a new last column.
SetCol(df, c, dtype, column) ==
    [cols |-> IF HasCol(df, c) THEN df.cols ELSE Append(df.cols, c),
     dt   |-> [k \in Range(df.cols) \cup {c} |-> IF k = c THEN dtype ELSE df.dt[k]],
     n    |-> df.n,
     val  |-> [k \in Range(df.cols) \cup {c} |-> IF k = c THEN column ELSE df.val[k]]]

\* df[keep], keep a sequence of columns of df.
Project(df, keep) ==
    [cols |-> keep,
     dt   |-> [k \in Range(keep) |-> df.dt[k]],
     n    |-> df.n,
     val  |-> [k \in Range(keep) |-> df.val[k]]]

\* df.drop(names, axis=1, errors='ignore')
DropCols(df, names) ==
    Project(df, SelectSeq(df.cols, LAMBDA c : c \notin names))

\* pd.concat([a, b], axis=1) of frames with disjoint columns.
ConcatCols(a, b) ==
    [cols |-> a.cols \o b.cols,
     dt   |-> [k \in Range(a.cols) \cup Range(b.cols) |->
                 IF k \in Range(a.cols) THEN a.dt[k] ELSE b.dt[k]],
     n    |-> a.n,
     val  |-> [k \in Range(a.cols) \cup Range(b.cols) |->
                 IF k \in Range(a.cols) THEN a.val[k] ELSE b.val[k]]]

Const(n, v) == [i \in 1..n |-> v]

\* df.select_dtypes(include=[np.number]).columns.tolist()
NumericCols(df) == SelectSeq(df.cols, LAMBDA c : df.dt[c] = "num")
\* df.select_dtypes(include=['object']).columns.tolist()
ObjectCols(df) == SelectSeq(df.cols, LAMBDA c : df.dt[c] = "obj")

\* Series.nunique(): distinct non-missing values.
NUnique(column) == Cardinality(Range(column) \ {NaN})

(***************************************************************************)
(* canonical_preprocess.py                                                 *)
(***************************************************************************)
get_canonical_features ==
    <<"industry", "ask_amount", "ask_equity", "valuation_requested", "monthly_sales">>

\* A variant that selects every column of an investor.
get_shark_columns_any(df) ==
    SelectSeq(df.cols, LAMBDA c : \/ EndsWith(c, "_present")
                                  \/ EndsWith(c, "_investment_amount")
                                  \/ EndsWith(c, "_investment_equity")
                                  \/ EndsWith(c, "_invested"))

get_shark_present_columns(df) ==
    SelectSeq(df.cols, LAMBDA c : EndsWith(c, "_present"))

outcome_vars == {"deal_amount", "deal_equity", "deal_valuation"}
target_cols == <<"deal", "valuation">>
all_outcome_vars == {"deal", "valuation", "deal_amount", "deal_equity", "deal_valuation"}

select_canonical_features(df, include_target) ==
    LET feature_cols == get_canonical_features
        shark_cols == get_shark_present_columns(df)
        with_target == IF include_target
                       THEN feature_cols \o shark_cols
                            \o SelectSeq(target_cols, LAMBDA c : HasCol(df, c))
                       ELSE feature_cols \o shark_cols
        selected_cols == SelectSeq(with_target, LAMBDA c : c \notin outcome_vars)
        available_cols == SelectSeq(selected_cols, LAMBDA c : HasCol(df, c))
    IN Project(df, available_cols)

\* A variant that takes the upper of the two middle entries instead of their midpoint.
MedianUpper(column) ==
    LET present == SortAsc(SelectSeq(column, LAMBDA v : v # NaN))
        k == Len(present)
    IN IF k = 0 THEN NaN ELSE present[k \div 2 + 1]

\* Series.median(): the middle of the sorted non-missing entries, the midpoint
\* of the two middle ones when their number is even, NaN when there is none.
Median(column) ==
    LET present == SortAsc(SelectSeq(column, LAMBDA v : v # NaN))
        k == Len(present)
    IN IF k = 0 THEN NaN
       ELSE IF k % 2 = 1 THEN present[(k + 1) \div 2]
       ELSE (present[k \div 2] + present[k \div 2 + 1]) \div 2

FillNum(column, v) == [i \in DOMAIN column |-> IF column[i] = NaN THEN v ELSE column[i]]
FillObj(column, v) == [i \in DOMAIN column |-> IF column[i] = NA THEN v ELSE column[i]]

\* One column of handle_missing_values_canonical.
FillColumn(df, c) ==
    IF df.dt[c] = "num" /\ c \notin all_outcome_vars
    THEN IF \E i \in 1..df.n : df.val[c][i] = NaN
         THEN LET median_val == Median(df.val[c])
              IN IF median_val = NaN THEN FillNum(df.val[c], 0)
                 ELSE FillNum(df.val[c], median_val)
         ELSE df.val[c]
    ELSE IF df.dt[c] = "obj" THEN FillObj(df.val[c], "Unknown")
    ELSE IF df.dt[c] = "num" /\ c \in outcome_vars THEN FillNum(df.val[c], 0)
    ELSE df.val[c]

handle_missing_values_canonical(df) ==
    [df EXCEPT !.val = [c \in Range(df.cols) |-> FillColumn(df, c)]]

\* (df[c] > 0).astype(int); a comparison with NaN is False.
Positive(column) == [i \in DOMAIN column |-> IF column[i] # NaN /\ column[i] > 0 THEN 1 ELSE 0]

\* A variant that writes 0 where the valuation cannot be derived.
create_canonical_targets_zero(df) ==
    LET deal == IF HasCol(df, "got_deal") THEN df.val["got_deal"]
                ELSE IF HasCol(df, "received_offer") THEN df.val["received_offer"]
                ELSE IF HasCol(df, "deal_amount") THEN Positive(df.val["deal_amount"])
                ELSE Const(df.n, 0)
        d1 == SetCol(df, "deal", "num", deal)
        mask(i) == /\ df.val["deal_amount"][i] # NaN /\ df.val["deal_amount"][i] > 0
                   /\ df.val["deal_equity"][i] # NaN /\ df.val["deal_equity"][i] > 0
                   /\ df.val["deal_equity"][i] <= 100
        valuation == IF HasCol(df, "deal_valuation") THEN df.val["deal_valuation"]
                     ELSE IF HasCol(df, "deal_amount") /\ HasCol(df, "deal_equity")
                     THEN [i \in 1..df.n |->
                             IF mask(i)
                             THEN (df.val["deal_amount"][i] * 100) \div df.val["deal_equity"][i]
                             ELSE 0]
                     ELSE Const(df.n, 0)
    IN SetCol(d1, "valuation", "num", valuation)

\* create_canonical_targets (canonical_preprocess.py:136-175).
create_canonical_targets(df) ==
    LET deal == IF HasCol(df, "got_deal") THEN df.val["got_deal"]
                ELSE IF HasCol(df, "received_offer") THEN df.val["received_offer"]
                ELSE IF HasCol(df, "deal_amount") THEN Positive(df.val["deal_amount"])
                ELSE Const(df.n, 0)
        d1 == SetCol(df, "deal", "num", deal)
        mask(i) == /\ df.val["deal_amount"][i] # NaN /\ df.val["deal_amount"][i] > 0
                   /\ df.val["deal_equity"][i] # NaN /\ df.val["deal_equity"][i] > 0
                   /\ df.val["deal_equity"][i] <= 100
        valuation == IF HasCol(df, "deal_valuation") THEN df.val["deal_valuation"]
                     ELSE IF HasCol(df, "deal_amount") /\ HasCol(df, "deal_equity")
                     THEN [i \in 1..df.n |->
                             IF mask(i)
                             THEN (df.val["deal_amount"][i] * 100) \div df.val["deal_equity"][i]
                             ELSE NaN]
                     ELSE Const(df.n, NaN)
    IN SetCol(d1, "valuation", "num", valuation)

\* The categories in the order pandas sorts them (lexicographic).
IndustryOrder == <<"Food", "Tech", "Unknown", "Zoo">>

\* pd.get_dummies(column, prefix='industry'): one indicator column per category
\* observed in the column, in sorted order; a missing entry gets no column.
get_dummies(column, bool_dummies) ==
    LET cats == SelectSeq(IndustryOrder, LAMBDA v : InSeq(v, column))
        names == [k \in DOMAIN cats |-> "industry_" \o cats[k]]
        catOf == [nm \in Range(names) |->
                    cats[CHOOSE k \in DOMAIN cats : names[k] = nm]]
    IN [cols |-> names,
        dt   |-> [nm \in Range(names) |-> IF bool_dummies THEN "bool" ELSE "num"],
        n    |-> Len(column),
        val  |-> [nm \in Range(names) |->
                    [i \in DOMAIN column |-> IF column[i] = catOf[nm] THEN 1 ELSE 0]]]

\* encode_canonical_features(df, fit=True): [df, encoder_dict].
encode_fit(df, bool_dummies) ==
    IF HasCol(df, "industry")
    THEN LET industry_encoded == get_dummies(df.val["industry"], bool_dummies)
         IN [df |-> ConcatCols(DropCols(df, {"industry"}), industry_encoded),
             encoder_dict |-> [industry_columns |-> industry_encoded.cols]]
    ELSE [df |-> df, encoder_dict |-> [industry_columns |-> <<>>]]

\* df[col] = 0 for every col of a list, in order.
RECURSIVE ZeroCols(_, _)
ZeroCols(df, names) ==
    IF names = <<>> THEN df
    ELSE ZeroCols(SetCol(df, Head(names), "num", Const(df.n, 0)), Tail(names))

\* A variant that keeps the indicator columns of the input's own categories.
encode_reuse_unaligned(df, encoder_dict, bool_dummies) ==
    IF HasCol(df, "industry")
    THEN ConcatCols(DropCols(df, {"industry"}), get_dummies(df.val["industry"], bool_dummies))
    ELSE ZeroCols(df, encoder_dict.industry_columns)

\* encode_canonical_features(df, fit=False, encoder_dict): the encoded df.
encode_reuse(df, encoder_dict, bool_dummies) ==
    IF HasCol(df, "industry")
    THEN LET temp_encoded == get_dummies(df.val["industry"], bool_dummies)
             voc == encoder_dict.industry_columns
             industry_encoded ==
                 [cols |-> voc,
                  dt   |-> [c \in Range(voc) |->
                              IF HasCol(temp_encoded, c) THEN temp_encoded.dt[c] ELSE "num"],
                  n    |-> df.n,
                  val  |-> [c \in Range(voc) |->
                              IF HasCol(temp_encoded, c) THEN temp_encoded.val[c]
                              ELSE Const(df.n, 0)]]
         IN ConcatCols(DropCols(df, {"industry"}), industry_encoded)
    ELSE ZeroCols(df, encoder_dict.industry_columns)

(***************************************************************************)
(* sklearn's StandardScaler.  A fitted scaler keeps, for each column it    *)
(* was fitted on, the mean and the population standard deviation; they are *)
(* held here as the number of rows n, the sum and the sum of squares.  A   *)
(* cell of a returned matrix is a pair <<num, sq>> that denotes the real   *)
(* number num / sqrt(sq): a raw value v is <<v, 1>>, a standardized value  *)
(* (v - mean) / std is <<n*v - sum, n*sumsq - sum^2>>, and with a zero     *)
(* variance (sklearn then divides by 1) it is <<n*v - sum, n^2>>.          *)
(***************************************************************************)
UnfittedScaler == [fitted |-> FALSE, features |-> <<>>, n |-> 0, sum |-> <<>>, sumsq |-> <<>>]

scaler_fit(X, numeric_cols) ==
    [fitted   |-> TRUE,
     features |-> numeric_cols,
     n        |-> X.n,
     sum      |-> [c \in Range(numeric_cols) |-> SumSeq(X.val[c])],
     sumsq    |-> [c \in Range(numeric_cols) |->
                     SumSeq([i \in 1..X.n |-> X.val[c][i] * X.val[c][i]])]]

Raw(v) == <<v, 1>>

scaler_transform(scaler, c, v) ==
    LET variance == scaler.n * scaler.sumsq[c] - scaler.sum[c] * scaler.sum[c]
    IN IF variance = 0
       THEN <<scaler.n * v - scaler.sum[c], scaler.n * scaler.n>>
       ELSE <<scaler.n * v - scaler.sum[c], variance>>

\* A variant that also leaves out the columns that hold a single value.
ScalableCols_skip_constant(X) ==
    SelectSeq(NumericCols(X), LAMBDA c : NUnique(X.val[c]) > 2)

\* The numeric columns that are not binary (canonical_preprocess.py:311-313).
ScalableCols(X) ==
    SelectSeq(NumericCols(X), LAMBDA c : NUnique(X.val[c]) # 2)

\* X_scaled: the columns of `scaled` standardized, the others as they are.
ApplyScaler(X, scaler, scaled) ==
    [X EXCEPT !.val = [c \in Range(X.cols) |->
        [i \in 1..X.n |-> IF InSeq(c, scaled)
                          THEN scaler_transform(scaler, c, X.val[c][i])
                          ELSE Raw(X.val[c][i])]]]

\* A variant that leaves the target columns in the feature frame.
DropNothing(df) == df

\* Separate features and target (canonical_preprocess.py:281-292).
DropOutcomes(df) == DropCols(df, all_outcome_vars)

\* preprocess_canonical(df, fit=True): [X, y, encoder_dict, scaler].
preprocess_fit(df0, bool_dummies) ==
    LET df1 == handle_missing_values_canonical(df0)
        df2 == create_canonical_targets(df1)
        include_target == HasCol(df2, "deal")
        df3 == select_canonical_features(df2, include_target)
        X0 == DropOutcomes(df3)
        y == IF HasCol(df3, "deal") THEN df3.val["deal"] ELSE <<>>
        enc == encode_fit(X0, bool_dummies)
        X == enc.df
        numeric_cols == ScalableCols(X)
        scaler == IF numeric_cols # <<>> THEN scaler_fit(X, numeric_cols) ELSE UnfittedScaler
    IN [X |-> ApplyScaler(X, scaler, numeric_cols),
        y |-> y,
        encoder_dict |-> enc.encoder_dict,
        scaler |-> scaler]

\* A variant that keeps the columns the record produced and adds none.
AlignPresentOnly(X, feature_names) ==
    Project(X, SelectSeq(feature_names, LAMBDA c : HasCol(X, c)))

\* A variant that re-indexes without a fill value: a missing column holds NaN.
AlignNaNFill(X, feature_names) ==
    [cols |-> feature_names,
     dt   |-> [c \in Range(feature_names) |-> IF HasCol(X, c) THEN X.dt[c] ELSE "num"],
     n    |-> X.n,
     val  |-> [c \in Range(feature_names) |->
                 IF HasCol(X, c) THEN X.val[c] ELSE Const(X.n, NaN)]]

\* Align columns to feature_names (canonical_preprocess.py:300-308).
Align(X, feature_names) ==
    [cols |-> feature_names,
     dt   |-> [c \in Range(feature_names) |-> IF HasCol(X, c) THEN X.dt[c] ELSE "num"],
     n    |-> X.n,
     val  |-> [c \in Range(feature_names) |->
                 IF HasCol(X, c) THEN X.val[c] ELSE Const(X.n, 0)]]

\* A variant that hands no column to scaler.transform.
ColsToScale_none(X, scaler, feature_names) == <<>>

\* The columns the transform-only run hands to scaler.transform
\* (canonical_preprocess.py:322-335).
ColsToScale(X, scaler, feature_names) ==
    LET numeric_cols == ScalableCols(X)
    IN IF numeric_cols = <<>> THEN <<>>
       ELSE IF scaler.fitted
       THEN SelectSeq(scaler.features, LAMBDA c : InSeq(c, numeric_cols) /\ HasCol(X, c))
       ELSE IF feature_names # <<>>
       THEN SelectSeq(numeric_cols, LAMBDA c : InSeq(c, feature_names))
       ELSE numeric_cols

\* scaler.transform raises on a scaler that was never fitted (NotFittedError)
\* and on columns other than the ones it was fitted on (ValueError).
TransformRaises(scaler, cols) ==
    cols # <<>> /\ (~scaler.fitted \/ cols # scaler.features)

\* preprocess_canonical(df, fit=False, encoder_dict, scaler, feature_names):
\* [raised, X]; X is the empty frame when the call raised.
preprocess_transform(df0, encoder_dict, scaler, feature_names, bool_dummies) ==
    LET df1 == handle_missing_values_canonical(df0)
        df3 == select_canonical_features(df1, FALSE)
        X0 == DropOutcomes(df3)
        X1 == encode_reuse(X0, encoder_dict, bool_dummies)
        X == Align(X1, feature_names)
        to_scale == ColsToScale(X, scaler, feature_names)
    IN IF TransformRaises(scaler, to_scale)
       THEN [raised |-> TRUE, X |-> EmptyDF(df0.n)]
       ELSE [raised |-> FALSE, X |-> ApplyScaler(X, scaler, to_scale)]

(***************************************************************************)
(* The fit / transform-only pipeline as a state machine: a training run    *)
(* fits the pipeline on a batch and keeps the artifact state, an inference *)
(* call then runs one record through the pipeline in transform-only mode.  *)
(***************************************************************************)
\* An optional column of n cells: <<>> when the frame does not carry it.
OptCol(n, Vals) == {<<>>} \cup [1..n -> Vals]

\* A frame of n rows from a list of <<name, dtype, column>>, absent columns skipped.
RECURSIVE MkDF(_, _)
MkDF(n, columns) ==
    IF columns = <<>> THEN EmptyDF(n)
    ELSE LET c == columns[Len(columns)]
             df == MkDF(n, SubSeq(columns, 1, Len(columns) - 1))
         IN IF c[3] = <<>> THEN df ELSE SetCol(df, c[1], c[2], c[3])

TrainIndustries == {"Tech", "Food", NA}
TrainAmounts == {NaN, 2, 4}
\* What a training batch carries of the outcome: nothing, the deal amount and
\* equity of each row, or every outcome and target column.
OutcomeChoices(n) == {<<"none">>, <<"all">>} \cup {<<"amount", a>> : a \in [1..n -> {0, 50}]}

OutcomeCols(n, oc) ==
    IF oc[1] = "none" THEN <<>>
    ELSE IF oc[1] = "amount"
    THEN << <<"deal_amount", "num", oc[2]>>, <<"deal_equity", "num", Const(n, 50)>> >>
    ELSE << <<"deal_amount", "num", Const(n, 50)>>, <<"deal_equity", "num", Const(n, NaN)>>,
            <<"deal_valuation", "num", Const(n, 100)>>, <<"deal", "num", Const(n, 1)>>,
            <<"valuation", "num", Const(n, 100)>> >>

TrainDF(n, ind, ask, ms, pres, oc) ==
    MkDF(n, << <<"industry", "obj", ind>>, <<"ask_amount", "num", ask>>,
               <<"monthly_sales", "num", ms>> >>
            \o OutcomeCols(n, oc)
            \o << <<"aman_present", "num", pres>> >>)

\* The artifact state a training script persists (train_deal.py:149-167).
Artifact(fit) ==
    [encoder_dict  |-> fit.encoder_dict,
     scaler        |-> fit.scaler,
     feature_names |-> fit.X.cols]

NoArtifact == [encoder_dict |-> [industry_columns |-> <<>>], scaler |-> UnfittedScaler,
               feature_names |-> <<>>]
NoOutput == [raised |-> FALSE, X |-> EmptyDF(0)]

\* preprocess_canonical(df, fit=True) on a training batch.
Fit ==
    /\ stage = "init"
    /\ \E n \in 1..MaxRows :
       \E ind \in OptCol(n, TrainIndustries), ask \in OptCol(n, TrainAmounts),
          ms \in {<<>>, Const(n, 0)}, pres \in OptCol(n, {0, 1}),
          oc \in OutcomeChoices(n) :
            art' = Artifact(preprocess_fit(TrainDF(n, ind, ask, ms, pres, oc), pandas_bool))
    /\ stage' = "fitted"
    /\ UNCHANGED <<pandas_bool, rec, out, mv_in, mv_out, store, call, result>>

RecordIndustries == {"Tech", "Zoo", NA}
RecordAmounts == {NaN, 4}
\* What else a record carries: nothing, the field of an investor the training
\* batch did not have, or outcome columns.
RecordExtras == {"none", "investor", "outcome"}

ExtraCols(x) ==
    IF x = "investor" THEN << <<"peyush_present", "num", <<1>> >> >>
    ELSE IF x = "outcome"
    THEN << <<"deal_amount", "num", <<50>> >>, <<"deal", "num", <<1>> >>,
            <<"valuation", "num", <<100>> >> >>
    ELSE <<>>

\* pd.DataFrame([input_data]) (inference.py:66).
RecordDF(ind, ask, ms, pres, x) ==
    MkDF(1, << <<"industry", "obj", ind>>, <<"ask_amount", "num", ask>>,
               <<"monthly_sales", "num", ms>>, <<"aman_present", "num", pres>> >>
            \o ExtraCols(x))

\* preprocess_canonical(df, fit=False, encoder_dict, scaler, feature_names) on
\* one record, as predict_deal calls it (inference.py:66-70).
Transform ==
    /\ stage = "fitted"
    /\ \E ind \in OptCol(1, RecordIndustries), ask \in OptCol(1, RecordAmounts),
          ms \in {<<>>, <<0>>}, pres \in {<<>>, <<1>>}, x \in RecordExtras :
          LET df == RecordDF(ind, ask, ms, pres, x)
          IN /\ rec' = df
             /\ out' = preprocess_transform(df, art.encoder_dict, art.scaler,
                                            art.feature_names, pandas_bool)
    /\ stage' = "transformed"
    /\ UNCHANGED <<pandas_bool, art, mv_in, mv_out, store, call, result>>

NoStore == <<>>
NoAnswers == [deal |-> [kind |-> "unused", p |-> 0], valuation |-> [kind |-> "unused", p |-> 0],
              sharks |-> <<>>, vec_ok |-> TRUE]
NoCall == [op |-> "none", country |-> "", df |-> EmptyDF(0), desc |-> <<>>, top_n |-> 0,
           answers |-> NoAnswers]
NoResult == [raised |-> "none", value |-> <<>>]

Init ==
    /\ pandas_bool \in BOOLEAN
    /\ stage = "init"
    /\ art = NoArtifact
    /\ rec = EmptyDF(0)
    /\ out = NoOutput
    /\ mv_in = EmptyDF(0)
    /\ mv_out = EmptyDF(0)
    /\ store = NoStore
    /\ call = NoCall
    /\ result = NoResult

Next == Fit \/ Transform

Spec == Init /\ [][Next]_vars

(***************************************************************************)
(* Properties of the pipeline.                                             *)
(***************************************************************************)
Returned == stage = "transformed" /\ ~out.raised

\* C1: a transform-only run that returns, returns a matrix whose column list
\* is feature_names as captured at fit time: same columns, same order, whatever
\* fields and industry value the record carries.
C1_FeatureSpaceStable ==
    Returned => out.X.cols = art.feature_names

\* A record with an industry unseen at fit time, without the ask_amount the
\* training batch had, and with the field of an investor unknown at fit time.
C1_Witness ==
    /\ Returned
    /\ HasCol(rec, "industry") /\ rec.val["industry"][1] = "Zoo"
    /\ ~HasCol(rec, "ask_amount") /\ InSeq("ask_amount", art.feature_names)
    /\ HasCol(rec, "peyush_present")
    /\ InSeq("industry_Tech", art.feature_names)

\* C2: no feature matrix, of a fit run or of a transform-only run, has an
\* outcome or target column, and select_canonical_features leaves the outcome
\* columns out with include_target true and false.
C2_NoOutcomeLeak ==
    /\ stage # "init" => Range(art.feature_names) \cap all_outcome_vars = {}
    /\ Returned => Range(out.X.cols) \cap all_outcome_vars = {}
    /\ \A include_target \in BOOLEAN :
         Range(select_canonical_features(rec, include_target).cols) \cap outcome_vars = {}

\* A record that carries outcome columns went through the pipeline.
C2_Witness ==
    /\ Returned
    /\ HasCol(rec, "deal_amount") /\ HasCol(rec, "deal") /\ HasCol(rec, "valuation")
    /\ art.feature_names # <<>>

\* The value of the only row of the record's field `industry` after the
\* missing-value step.
RecordIndustry == IF rec.val["industry"][1] = NA THEN "Unknown" ELSE rec.val["industry"][1]

\* The columns of feature_names the record does not produce.
NotProduced(c) ==
    /\ ~HasCol(rec, c)
    /\ ~(HasCol(rec, "industry") /\ c = "industry_" \o RecordIndustry)

\* C3 as stated: every column of feature_names the record does not produce
\* holds 0 in the returned matrix.
C3_Original ==
    Returned =>
        \A c \in Range(art.feature_names) : NotProduced(c) => out.X.val[c][1][1] = 0

\* C3 amended: a column the record does not produce is filled with 0 before the
\* scaling step, so the returned matrix holds 0 in it when the column is not one
\* the scaler was fitted on, and the standardized value of 0, (0 - mean) / std,
\* when it is.
C3_ZeroFilledThenScaled ==
    Returned =>
        \A c \in Range(art.feature_names) : NotProduced(c) =>
            IF InSeq(c, art.scaler.features)
            THEN LET variance == art.scaler.n * art.scaler.sumsq[c]
                                 - art.scaler.sum[c] * art.scaler.sum[c]
                 IN /\ out.X.val[c][1][1] = 0 - art.scaler.sum[c]
                    /\ out.X.val[c][1][2] =
                         IF variance = 0 THEN art.scaler.n * art.scaler.n ELSE variance
            ELSE out.X.val[c][1] = <<0, 1>>

\* A record without ask_amount and without the investor field, the first
\* standardized with a non-zero training mean, the second not standardized.
C3_Witness ==
    /\ Returned
    /\ ~HasCol(rec, "ask_amount") /\ InSeq("ask_amount", art.scaler.features)
    /\ art.scaler.sum["ask_amount"] > 0
    /\ ~HasCol(rec, "aman_present") /\ InSeq("aman_present", art.feature_names)
    /\ ~InSeq("aman_present", art.scaler.features)

(***************************************************************************)
(* handle_missing_values_canonical on a batch of its own.                  *)
(***************************************************************************)
BatchAmounts == {NaN, 2, 4, 8}

BatchDF(n, ask, ind, amt, val) ==
    MkDF(n, << <<"ask_amount", "num", ask>>, <<"industry", "obj", ind>>,
               <<"deal_amount", "num", amt>>, <<"valuation", "num", val>> >>)

HandleMissing ==
    /\ mv_in.n = 0
    /\ \E n \in 1..MaxBatch :
       \E ask \in [1..n -> BatchAmounts], ind \in OptCol(n, {"Tech", NA}),
          amt \in OptCol(n, {NaN, 50}), val \in {<<>>, Const(n, NaN)} :
          LET df == BatchDF(n, ask, ind, amt, val)
          IN /\ mv_in' = df
             /\ mv_out' = handle_missing_values_canonical(df)
    /\ UNCHANGED <<pandas_bool, stage, art, rec, out, store, call, result>>

InitMissing ==
    /\ pandas_bool = TRUE
    /\ stage = "init"
    /\ art = NoArtifact
    /\ rec = EmptyDF(0)
    /\ out = NoOutput
    /\ mv_in = EmptyDF(0)
    /\ mv_out = EmptyDF(0)
    /\ store = NoStore
    /\ call = NoCall
    /\ result = NoResult

NextMissing == HandleMissing

SpecMissing == InitMissing /\ [][NextMissing]_vars

\* v is the r-th smallest of the non-missing entries of a column.
IsRank(v, r, column) ==
    /\ \E i \in DOMAIN column : column[i] = v /\ v # NaN
    /\ Cardinality({i \in DOMAIN column : column[i] # NaN /\ column[i] < v}) < r
    /\ Cardinality({i \in DOMAIN column : column[i] # NaN /\ column[i] <= v}) >= r

\* m is the median of the non-missing entries of a column that has some.
IsMedian(m, column) ==
    LET k == Cardinality({i \in DOMAIN column : column[i] # NaN})
    IN IF k % 2 = 1 THEN IsRank(m, (k + 1) \div 2, column)
       ELSE \E a, b \in Range(column) :
               /\ IsRank(a, k \div 2, column)
               /\ IsRank(b, k \div 2 + 1, column)
               /\ 2 * m = a + b

\* C10: in every numeric column outside the outcome set, a missing entry is
\* replaced by the median of the column's non-missing entries, or by 0 when
\* every entry is missing (so a missing field of a single-row batch becomes 0),
\* and the other entries, the columns and the number of rows are kept.
C10_MedianOrZero ==
    /\ mv_out.cols = mv_in.cols /\ mv_out.n = mv_in.n
    /\ \A c \in Range(mv_in.cols) :
         mv_in.dt[c] = "num" /\ c \notin all_outcome_vars =>
           \A i \in 1..mv_in.n :
              IF mv_in.val[c][i] # NaN THEN mv_out.val[c][i] = mv_in.val[c][i]
              ELSE IF \A j \in 1..mv_in.n : mv_in.val[c][j] = NaN
              THEN mv_out.val[c][i] = 0
              ELSE IsMedian(mv_out.val[c][i], mv_in.val[c])

\* A single-row batch whose numeric field is missing came back filled with 0.
C10_Witness ==
    /\ mv_in.n = 1 /\ mv_in.val["ask_amount"][1] = NaN
    /\ mv_out.val["ask_amount"][1] = 0

\* A batch with one missing and two different present entries came back with
\* the midpoint of the two.
C10_WitnessMidpoint ==
    /\ mv_in.n = 3 /\ mv_in.val["ask_amount"] = <<NaN, 2, 8>>
    /\ mv_out.val["ask_amount"] = <<5, 2, 8>>

(***************************************************************************)
(* The inference facade (inference.py, similarity_finder.py).              *)
(*                                                                         *)
(* A fitted model is opaque: what it answers on a call is an input of the  *)
(* call, a record [kind, p] with kind "prob" (it returned p) or "raise"    *)
(* (it raised), and "unused" when the call never reached the model.        *)
(* Probabilities are integers, in millionths.  What an operation gives is  *)
(* a record [raised, value]: raised is "none" or the exception's class.    *)
(***************************************************************************)
ProbScale == 1000000
prediction_threshold == 650000

\* The countries that have a configuration document, and one that has none.
Configured == {"India", "US"}
Countries == Configured \cup {"Atlantis"}
ModelTypes == {"deal", "valuation", "sharks", "similarity"}

\* The corpus of each configured country, in canonical form.
Dataset(country) ==
    IF country = "India"
    THEN TrainDF(3, <<"Tech", "Food", "Tech">>, <<2, 4, 8>>, Const(3, 0), <<1, 0, 1>>,
                 <<"amount", <<50, 0, 50>> >>)
    ELSE TrainDF(3, <<"Food", NA, "Food">>, <<4, 4, 2>>, <<>>, <<1, 1, 0>>, <<"all">>)

\* The pipeline state a training run of each country puts in its artifacts
\* (train_deal.py:68-70, 149), for either kind of dummy column.
TrainedArtifacts ==
    [country \in Configured, bool_dummies \in BOOLEAN |->
        Artifact(preprocess_fit(Dataset(country), bool_dummies))]

TrainedArtifact(country, bool_dummies) == TrainedArtifacts[country, bool_dummies]

\* The investors that have a classifier in the investor artifact, in the
\* order of the artifact's shark_models (india.py:45).
Roster == <<"Namita", "Vineeta", "Anupam", "Aman", "Peyush", "Ritesh", "Amit">>
shark_models == SubSeq(Roster, 1, IF MaxSharks < Len(Roster) THEN MaxSharks ELSE Len(Roster))

Ok(v) == [raised |-> "none", value |-> v]
Raise(class, message) == [raised |-> class, value |-> message]

Unused == [kind |-> "unused", p |-> 0]
Raises == [kind |-> "raise", p |-> 0]
Answers(P) == {[kind |-> "prob", p |-> x] : x \in P} \cup {Raises}

\* load_config (config/__init__.py:22-31).
load_config(country) ==
    IF country \in Configured THEN Ok(country)
    ELSE Raise("ValueError", "Configuration file not found for country")

\* A variant that looks for the artifact before it reads the configuration.
load_model_artifact_first(country, model_type, st) ==
    IF country \notin DOMAIN st \/ ~st[country][model_type]
    THEN Raise("FileNotFoundError", "Model not found. Please train the model first.")
    ELSE IF load_config(country).raised # "none" THEN load_config(country)
    ELSE Ok(model_type)

\* load_model (inference.py:31-37): the exception it raises, or "none".
load_model(country, model_type, st) ==
    IF load_config(country).raised # "none" THEN load_config(country)
    ELSE IF ~st[country][model_type]
    THEN Raise("FileNotFoundError", "Model not found. Please train the model first.")
    ELSE Ok(model_type)

\* The preprocessing of predict_deal, predict_valuation and predict_sharks
\* (inference.py:66-71).
PreprocessWith(model_data, df, bool_dummies) ==
    preprocess_transform(df, model_data.encoder_dict, model_data.scaler,
                         model_data.feature_names, bool_dummies)

Preprocess(country, df, bool_dummies) ==
    PreprocessWith(TrainedArtifact(country, bool_dummies), df, bool_dummies)

\* A variant that predicts a deal only above the threshold.
deal_label_above(probability) == IF probability > prediction_threshold THEN 1 ELSE 0

\* prediction = 1 if probability >= prediction_threshold else 0 (inference.py:80-81).
deal_label(probability) == IF probability >= prediction_threshold THEN 1 ELSE 0

\* predict_deal (inference.py:40-83).
predict_deal(country, df, answer, st, bool_dummies) ==
    IF load_model(country, "deal", st).raised # "none" THEN load_model(country, "deal", st)
    ELSE IF Preprocess(country, df, bool_dummies).raised
    THEN Raise("Exception", "preprocessing failed")
    ELSE IF answer.kind # "prob" THEN Raise("Exception", "predict_proba failed")
    ELSE Ok([probability |-> answer.p, prediction |-> deal_label(answer.p)])

\* A variant that leaves out the "minus one": np.exp, in thousandths.
exp_only(v_log) ==
    CASE v_log = 0 -> 1000
      [] v_log = 1 -> 2718
      [] v_log = 2 -> 7389
      [] OTHER -> 368

\* np.expm1 of the log-space outputs the model gives here (0, 1, 2 and -1), in
\* thousandths.
expm1(v_log) ==
    CASE v_log = 0 -> 0
      [] v_log = 1 -> 1718
      [] v_log = 2 -> 6389
      [] OTHER -> -632

\* predict_valuation (inference.py:86-126); the confidence range is in
\* ten-thousandths.
predict_valuation(country, df, answer, st, bool_dummies) ==
    IF load_model(country, "valuation", st).raised # "none"
    THEN load_model(country, "valuation", st)
    ELSE IF Preprocess(country, df, bool_dummies).raised
    THEN Raise("Exception", "preprocessing failed")
    ELSE IF answer.kind # "prob" THEN Raise("Exception", "predict failed")
    ELSE LET valuation == expm1(answer.p)
         IN Ok([valuation |-> valuation,
                confidence_range |-> <<valuation * 7, valuation * 13>>])

\* A variant in which an investor whose classifier fails is left out.
shark_probs_skip_failed(answers) ==
    LET ok == SelectSeq([i \in DOMAIN answers |-> <<shark_models[i], answers[i]>>],
                        LAMBDA e : e[2].kind = "prob")
    IN [i \in DOMAIN ok |-> <<ok[i][1], ok[i][2].p>>]

\* Predict for each shark (inference.py:165-172): the items of shark_probs, in
\* the order of shark_models.
shark_probs_of(answers) ==
    [i \in DOMAIN answers |->
        <<shark_models[i], IF answers[i].kind = "prob" THEN answers[i].p ELSE 0>>]

\* A variant that sorts ascending and reverses: equal items come out reversed.
RECURSIVE sorted_reverse_unstable(_)
sorted_reverse_unstable(items) ==
    IF items = <<>> THEN <<>>
    ELSE LET m == CHOOSE i \in DOMAIN items :
                    /\ \A j \in DOMAIN items : items[j][2] <= items[i][2]
                    /\ \A j \in DOMAIN items : j > i => items[j][2] < items[i][2]
             rest == [k \in 1..(Len(items) - 1) |-> IF k < m THEN items[k] ELSE items[k + 1]]
         IN <<items[m]>> \o sorted_reverse_unstable(rest)

\* sorted(items, key=lambda x: x[1], reverse=True) (inference.py:175): a
\* stable sort, equal items keep their order.
RECURSIVE sorted_reverse(_)
sorted_reverse(items) ==
    IF items = <<>> THEN <<>>
    ELSE LET m == CHOOSE i \in DOMAIN items :
                    /\ \A j \in DOMAIN items : items[j][2] <= items[i][2]
                    /\ \A j \in DOMAIN items : j < i => items[j][2] < items[i][2]
             rest == [k \in 1..(Len(items) - 1) |-> IF k < m THEN items[k] ELSE items[k + 1]]
         IN <<items[m]>> \o sorted_reverse(rest)

\* The insights of predict_sharks (inference.py:177-223): one line for each
\* investor of the artifact's insights that has a model, here named by its
\* investor.
insights_of(models) == [i \in DOMAIN models |-> models[i]]

\* predict_sharks (inference.py:129-225).
predict_sharks(country, df, answers, st, bool_dummies) ==
    IF load_model(country, "sharks", st).raised # "none"
    THEN load_model(country, "sharks", st)
    ELSE IF Preprocess(country, df, bool_dummies).raised
    THEN Raise("Exception", "preprocessing failed")
    ELSE LET shark_probs == shark_probs_of(answers)
         IN Ok([probabilities |-> shark_probs, ranked |-> sorted_reverse(shark_probs),
                insights |-> insights_of(shark_models)])

(***************************************************************************)
(* similarity_finder.py.  A text is a sequence of tokens, each a word or   *)
(* the blank " "; the fitted vectorizer knows the words of Vocabulary.  A  *)
(* similarity is a pair <<a, b>> that denotes the squared cosine a / b.    *)
(***************************************************************************)
Vocabulary == {"solar", "snack"}
Tokens == {" ", "solar", "snack", "zzz"}
Texts == {<<>>} \cup {<<a>> : a \in Tokens} \cup {<<a, b>> : a, b \in Tokens}

\* The stored rows of a country's similarity artifact: the tf-idf vector of
\* each company's description (similarity_finder.py:102-105).
Corpus(country) ==
    IF country = "India"
    THEN << [solar |-> 2, snack |-> 0], [solar |-> 1, snack |-> 1], [solar |-> 0, snack |-> 0] >>
    ELSE << [solar |-> 0, snack |-> 1], [solar |-> 1, snack |-> 3] >>

\* business_description.strip() == ''
IsBlank(text) == \A i \in DOMAIN text : text[i] = " "

\* vectorizer.transform([text]): the count of each word of the vocabulary.
vectorize(text) ==
    [w \in Vocabulary |-> Cardinality({i \in DOMAIN text : text[i] = w})]

Dot(u, v) == SumSeq([k \in 1..Cardinality(Vocabulary) |->
                       LET w == SetToSeq(Vocabulary)[k] IN u[w] * v[w]])

\* cosine_similarity(desc_vector, [stored_vector])[0][0]; 0 for a zero vector.
cosine_similarity(u, v) ==
    IF Dot(u, v) = 0 THEN <<0, 1>> ELSE <<Dot(u, v) * Dot(u, v), Dot(u, u) * Dot(v, v)>>

SimLess(a, b) == a[1] * b[2] < b[1] * a[2]

\* np.argsort(similarities): the indices in ascending order of similarity, equal
\* ones in index order.
RECURSIVE argsort(_, _)
argsort(similarities, left) ==
    IF left = {} THEN <<>>
    ELSE LET m == CHOOSE i \in left :
                    \A j \in left : j # i =>
                        \/ SimLess(similarities[i], similarities[j])
                        \/ ~SimLess(similarities[j], similarities[i]) /\ i < j
         IN <<m>> \o argsort(similarities, left \ {m})

Reverse(s) == [i \in DOMAIN s |-> s[Len(s) + 1 - i]]

\* A variant that keeps the rows of similarity zero among the top ones.
find_similar_companies_keep_zero(country, text, top_n, vec_ok, st) ==
    IF load_config(country).raised # "none" THEN load_config(country)
    ELSE IF ~st[country]["similarity"]
    THEN Raise("FileNotFoundError", "Similarity model not found. Please train the model first.")
    ELSE IF text = <<>> \/ IsBlank(text) THEN Ok(<<>>)
    ELSE IF ~vec_ok THEN Ok(<<>>)
    ELSE LET desc_vector == vectorize(text)
             rows == Corpus(country)
             similarities == [i \in DOMAIN rows |-> cosine_similarity(desc_vector, rows[i])]
             order == Reverse(argsort(similarities, DOMAIN rows))
             top_indices == SubSeq(order, 1, IF top_n < Len(order) THEN top_n ELSE Len(order))
         IN Ok([k \in DOMAIN top_indices |->
                   [row |-> top_indices[k], similarity_score |-> similarities[top_indices[k]]]])

\* A variant that takes the first top_n rows of the ascending order.
find_similar_companies_ascending(country, text, top_n, vec_ok, st) ==
    IF load_config(country).raised # "none" THEN load_config(country)
    ELSE IF ~st[country]["similarity"]
    THEN Raise("FileNotFoundError", "Similarity model not found. Please train the model first.")
    ELSE IF text = <<>> \/ IsBlank(text) THEN Ok(<<>>)
    ELSE IF ~vec_ok THEN Ok(<<>>)
    ELSE LET desc_vector == vectorize(text)
             rows == Corpus(country)
             similarities == [i \in DOMAIN rows |-> cosine_similarity(desc_vector, rows[i])]
             order == argsort(similarities, DOMAIN rows)
             top_indices == SubSeq(order, 1, IF top_n < Len(order) THEN top_n ELSE Len(order))
             kept == SelectSeq(top_indices, LAMBDA i : similarities[i][1] > 0)
         IN Ok([k \in DOMAIN kept |->
                   [row |-> kept[k], similarity_score |-> similarities[kept[k]]]])

\* find_similar_companies (similarity_finder.py:143-213).
find_similar_companies(country, text, top_n, vec_ok, st) ==
    IF load_config(country).raised # "none" THEN load_config(country)
    ELSE IF ~st[country]["similarity"]
    THEN Raise("FileNotFoundError", "Similarity model not found. Please train the model first.")
    ELSE IF text = <<>> \/ IsBlank(text) THEN Ok(<<>>)
    ELSE IF ~vec_ok THEN Ok(<<>>)
    ELSE LET desc_vector == vectorize(text)
             rows == Corpus(country)
             similarities == [i \in DOMAIN rows |-> cosine_similarity(desc_vector, rows[i])]
             order == Reverse(argsort(similarities, DOMAIN rows))
             top_indices == SubSeq(order, 1, IF top_n < Len(order) THEN top_n ELSE Len(order))
             kept == SelectSeq(top_indices, LAMBDA i : similarities[i][1] > 0)
         IN Ok([k \in DOMAIN kept |->
                   [row |-> kept[k], similarity_score |-> similarities[kept[k]]]])

\* Whether a similarity query gets as far as the vectorizer.
ReachesVectorizer(country, text, st) ==
    /\ country \in Configured
    /\ st[country]["similarity"]
    /\ text # <<>> /\ ~IsBlank(text)

\* A variant in which a failed section never says why.
Section_silent(outcome) ==
    IF outcome.raised = "none" THEN [available |-> TRUE, payload |-> outcome.value]
    ELSE [available |-> FALSE]

\* One section of predict_all's result from what its prediction gave
\* (inference.py:246-284).
Section(outcome) ==
    IF outcome.raised = "none" THEN [available |-> TRUE, payload |-> outcome.value]
    ELSE IF outcome.raised = "FileNotFoundError" THEN [available |-> FALSE]
    ELSE [available |-> FALSE, error |-> outcome.value]

\* The similar-companies section (inference.py:286-300).
SimilarSection(country, desc, vec_ok, st) ==
    IF desc # <<>> /\ ~IsBlank(desc)
    THEN Section(find_similar_companies(country, desc, 5, vec_ok, st))
    ELSE [available |-> FALSE, message |-> "No description provided"]

\* A variant in which the first failure ends the call: the later sections are
\* reported unavailable.
predict_all_abort(country, df, desc, answers, st, bool_dummies) ==
    LET deal == Section(predict_deal(country, df, answers.deal, st, bool_dummies))
        valuation == IF deal.available
                     THEN Section(predict_valuation(country, df, answers.valuation, st, bool_dummies))
                     ELSE [available |-> FALSE]
        sharks == IF valuation.available
                  THEN Section(predict_sharks(country, df, answers.sharks, st, bool_dummies))
                  ELSE [available |-> FALSE]
    IN Ok([deal |-> deal, valuation |-> valuation, sharks |-> sharks,
           similar_companies |-> IF sharks.available
                                 THEN SimilarSection(country, desc, answers.vec_ok, st)
                                 ELSE [available |-> FALSE]])

\* predict_all (inference.py:228-302).
predict_all(country, df, desc, answers, st, bool_dummies) ==
    Ok([deal      |-> Section(predict_deal(country, df, answers.deal, st, bool_dummies)),
        valuation |-> Section(predict_valuation(country, df, answers.valuation, st, bool_dummies)),
        sharks    |-> Section(predict_sharks(country, df, answers.sharks, st, bool_dummies)),
        similar_companies |-> SimilarSection(country, desc, answers.vec_ok, st)])

(***************************************************************************)
(* The facade as a state machine: training runs put artifacts on disk, and *)
(* then one call of the facade is made and its result kept.                *)
(***************************************************************************)
DealProbs == {0, 299999, 300000, 649999, 650000, 1000000}
SharkProbs == {400000, 700000}
VLogs == {-1, 0, 2}
FacadeRecords == {RecordDF(<<"Tech">>, <<4>>, <<>>, <<1>>, "none"),
                  RecordDF(<<>>, <<>>, <<>>, <<>>, "none")}
AllTexts == {<<>>, <<" ">>, <<"zzz">>, <<"solar">>}

\* What the deal or valuation model answers on a call: nothing if the call
\* does not load it.
ModelAnswers(country, model_type, P) ==
    IF load_model(country, model_type, store).raised = "none" THEN Answers(P) ELSE {Unused}

SharkAnswers(country) ==
    IF load_model(country, "sharks", store).raised = "none"
    THEN [DOMAIN shark_models -> Answers(SharkProbs)]
    ELSE {<<>>}

VectorizerAnswers(country, text) ==
    IF ReachesVectorizer(country, text, store) THEN BOOLEAN ELSE {TRUE}

\* The training runs explored: every model of India, and the deal model of the
\* US, whose corpus leaves the scaler of its pipeline unfitted.
TrainingRuns == ({"India"} \X ModelTypes) \cup {<<"US", "deal">>}

\* save_deal_model, save_valuation_model, save_shark_models, save_similarity_model:
\* the artifact of a configured country is written.
Train ==
    /\ call.op = "none"
    /\ \E run \in TrainingRuns :
         LET country == run[1]
             model_type == run[2]
         IN
         /\ ~store[country][model_type]
         /\ store' = [store EXCEPT ![country][model_type] = TRUE]
    /\ UNCHANGED <<pandas_bool, stage, art, rec, out, mv_in, mv_out, call, result>>

PredictDeal ==
    /\ call.op = "none"
    /\ \E country \in Countries, df \in FacadeRecords :
       \E answer \in ModelAnswers(country, "deal", DealProbs) :
         /\ call' = [NoCall EXCEPT !.op = "predict_deal", !.country = country, !.df = df,
                                   !.answers.deal = answer]
         /\ result' = predict_deal(country, df, answer, store, pandas_bool)
    /\ UNCHANGED <<pandas_bool, stage, art, rec, out, mv_in, mv_out, store>>

PredictValuation ==
    /\ call.op = "none"
    /\ \E country \in Countries, df \in FacadeRecords :
       \E answer \in ModelAnswers(country, "valuation", VLogs) :
         /\ call' = [NoCall EXCEPT !.op = "predict_valuation", !.country = country, !.df = df,
                                   !.answers.valuation = answer]
         /\ result' = predict_valuation(country, df, answer, store, pandas_bool)
    /\ UNCHANGED <<pandas_bool, stage, art, rec, out, mv_in, mv_out, store>>

PredictSharks ==
    /\ call.op = "none"
    /\ \E country \in Countries, df \in FacadeRecords :
       \E answers \in SharkAnswers(country) :
         /\ call' = [NoCall EXCEPT !.op = "predict_sharks", !.country = country, !.df = df,
                                   !.answers.sharks = answers]
         /\ result' = predict_sharks(country, df, answers, store, pandas_bool)
    /\ UNCHANGED <<pandas_bool, stage, art, rec, out, mv_in, mv_out, store>>

FindSimilar ==
    /\ call.op = "none"
    /\ \E country \in Countries, text \in Texts, top_n \in 1..MaxTopN :
       \E vec_ok \in VectorizerAnswers(country, text) :
         /\ call' = [NoCall EXCEPT !.op = "find_similar_companies", !.country = country,
                                   !.desc = text, !.top_n = top_n, !.answers.vec_ok = vec_ok]
         /\ result' = find_similar_companies(country, text, top_n, vec_ok, store)
    /\ UNCHANGED <<pandas_bool, stage, art, rec, out, mv_in, mv_out, store>>

PredictAll ==
    /\ call.op = "none"
    /\ \E country \in Countries, df \in FacadeRecords, desc \in AllTexts :
       \E deal \in ModelAnswers(country, "deal", DealProbs),
          valuation \in ModelAnswers(country, "valuation", VLogs),
          sharks \in SharkAnswers(country),
          vec_ok \in VectorizerAnswers(country, desc) :
         LET answers == [deal |-> deal, valuation |-> valuation, sharks |-> sharks,
                         vec_ok |-> vec_ok]
         IN /\ call' = [NoCall EXCEPT !.op = "predict_all", !.country = country, !.df = df,
                                      !.desc = desc, !.answers = answers]
            /\ result' = predict_all(country, df, desc, answers, store, pandas_bool)
    /\ UNCHANGED <<pandas_bool, stage, art, rec, out, mv_in, mv_out, store>>

InitFacade ==
    /\ pandas_bool = TRUE
    /\ stage = "init"
    /\ art = NoArtifact
    /\ rec = EmptyDF(0)
    /\ out = NoOutput
    /\ mv_in = EmptyDF(0)
    /\ mv_out = EmptyDF(0)
    /\ store = [country \in Configured |-> [model_type \in ModelTypes |-> FALSE]]
    /\ call = NoCall
    /\ result = NoResult

NextFacade ==
    \/ Train
    \/ PredictDeal
    \/ PredictValuation
    \/ PredictSharks
    \/ FindSimilar
    \/ PredictAll

SpecFacade == InitFacade /\ [][NextFacade]_vars

(***************************************************************************)
(* Properties of the facade.                                               *)
(***************************************************************************)
\* The artifact the call's country has on disk for a prediction type.
ArtifactPresent(model_type) ==
    call.country \in Configured /\ store[call.country][model_type]

\* The call's record goes through the pipeline of the country's artifact.
RecordPreprocessed ==
    ~Preprocess(call.country, call.df, pandas_bool).raised

Described == \E i \in DOMAIN call.desc : call.desc[i] # " "

SectionNames == {"deal", "valuation", "sharks", "similar_companies"}

\* C4: predict_all never raises and returns the four sections deal, valuation,
\* sharks and similar_companies, each with its own available flag; a section
\* is available exactly when its own prediction succeeded, whatever happened
\* to the other sections, and an available deal section carries the
\* probability and the prediction.
C4_SectionsIndependent ==
    call.op = "predict_all" =>
        /\ result.raised = "none"
        /\ DOMAIN result.value = SectionNames
        /\ \A s \in SectionNames : "available" \in DOMAIN result.value[s]
        /\ result.value.deal.available <=>
             (ArtifactPresent("deal") /\ RecordPreprocessed /\ call.answers.deal.kind = "prob")
        /\ result.value.valuation.available <=>
             (ArtifactPresent("valuation") /\ RecordPreprocessed
              /\ call.answers.valuation.kind = "prob")
        /\ result.value.sharks.available <=> (ArtifactPresent("sharks") /\ RecordPreprocessed)
        /\ result.value.similar_companies.available <=>
             (Described /\ ArtifactPresent("similarity"))
        /\ result.value.deal.available =>
             /\ DOMAIN result.value.deal.payload = {"probability", "prediction"}
             /\ result.value.deal.payload.probability = call.answers.deal.p

\* The deal artifact is there and the valuation artifact is not: the deal
\* section is available with its payload, the valuation section is not.
C4_Witness ==
    /\ call.op = "predict_all"
    /\ ArtifactPresent("deal") /\ ~ArtifactPresent("valuation")
    /\ result.raised = "none"
    /\ result.value.deal.available
    /\ result.value.deal.payload.probability = 650000
    /\ result.value.deal.payload.prediction = 1
    /\ ~result.value.valuation.available
    /\ result.value.sharks.available

\* The prediction of a section was attempted and failed.
Failed(s) ==
    /\ ~result.value[s].available
    /\ s = "similar_companies" => Described

ModelTypeOf(s) == IF s = "similar_companies" THEN "similarity" ELSE s

\* The section failed because the country's artifact is not on disk.
ArtifactMissing(s) ==
    call.country \in Configured /\ ~store[call.country][ModelTypeOf(s)]

\* C5 as stated: in the result of predict_all every section that is
\* unavailable because its prediction failed, a missing artifact included,
\* carries an error description.
C5_Original ==
    call.op = "predict_all" =>
        \A s \in SectionNames : Failed(s) => "error" \in DOMAIN result.value[s]

\* C5, amended: a section whose prediction failed carries an error description
\* exactly when the failure is not a missing artifact; a section whose
\* artifact is missing carries the available flag alone.
C5_ErrorUnlessArtifactMissing ==
    call.op = "predict_all" =>
        \A s \in SectionNames :
            Failed(s) =>
                IF ArtifactMissing(s)
                THEN DOMAIN result.value[s] = {"available"}
                ELSE /\ DOMAIN result.value[s] = {"available", "error"}
                     /\ result.value[s].error # ""

\* One call in which the deal model fails to score (an error description) and
\* the valuation artifact is missing (no error description).
C5_Witness ==
    /\ call.op = "predict_all"
    /\ ArtifactPresent("deal") /\ call.answers.deal.kind = "raise"
    /\ ArtifactMissing("valuation")
    /\ result.value.deal = [available |-> FALSE, error |-> "predict_proba failed"]
    /\ result.value.valuation = [available |-> FALSE]

\* C6: predict_deal returns prediction 1 if and only if the model's
\* probability is at least 0.65 (0.65 and 1.0 give 1, 0.0 and anything below
\* 0.65 give 0), and returns the model's probability unchanged.
C6_ThresholdInclusive ==
    (call.op = "predict_deal" /\ call.answers.deal.kind = "prob" /\ RecordPreprocessed) =>
        /\ result.raised = "none"
        /\ result.value.probability = call.answers.deal.p
        /\ result.value.prediction \in {0, 1}
        /\ result.value.prediction = 1 <=> call.answers.deal.p * 100 >= 65 * ProbScale

\* The model answers exactly 0.65 and the prediction is 1.
C6_Witness ==
    /\ call.op = "predict_deal"
    /\ call.answers.deal = [kind |-> "prob", p |-> 650000]
    /\ result.raised = "none"
    /\ result.value.prediction = 1

\* The model answers just below 0.65 and the prediction is 0.
C6_WitnessBelow ==
    /\ call.op = "predict_deal"
    /\ call.answers.deal = [kind |-> "prob", p |-> 649999]
    /\ result.raised = "none"
    /\ result.value.prediction = 0

\* The place of an investor in the artifact's shark_models.
RosterIndex(shark) == CHOOSE i \in DOMAIN shark_models : shark_models[i] = shark

\* C7: the ranked list of predict_sharks holds every investor once, ordered by
\* probability descending, investors of equal probability in the order of the
\* artifact's investor models.
C7_RankedStable ==
    (call.op = "predict_sharks" /\ result.raised = "none") =>
        LET ranked == result.value.ranked
            shark_probs == result.value.probabilities
        IN /\ Len(ranked) = Len(shark_probs)
           /\ Range(ranked) = Range(shark_probs)
           /\ \A i, j \in DOMAIN ranked :
                i < j =>
                    \/ ranked[i][2] > ranked[j][2]
                    \/ /\ ranked[i][2] = ranked[j][2]
                       /\ RosterIndex(ranked[i][1]) < RosterIndex(ranked[j][1])

\* Probabilities 0.4, 0.4, 0.7 in roster order are ranked third, first, second.
C7_Witness ==
    /\ call.op = "predict_sharks"
    /\ result.raised = "none"
    /\ Len(result.value.ranked) >= 3
    /\ result.value.ranked[1] = <<shark_models[3], 700000>>
    /\ result.value.ranked[2] = <<shark_models[1], 400000>>
    /\ result.value.ranked[3] = <<shark_models[2], 400000>>

\* C8: when an investor's classifier fails to score the record, predict_sharks
\* still returns, that investor has probability 0, and every other investor has
\* the probability its own classifier gave.
C8_FailedClassifierIsZero ==
    (call.op = "predict_sharks" /\ ArtifactPresent("sharks") /\ RecordPreprocessed) =>
        /\ result.raised = "none"
        /\ Len(result.value.probabilities) = Len(shark_models)
        /\ \A i \in DOMAIN shark_models :
             /\ result.value.probabilities[i][1] = shark_models[i]
             /\ call.answers.sharks[i].kind = "raise" => result.value.probabilities[i][2] = 0
             /\ call.answers.sharks[i].kind = "prob" =>
                  result.value.probabilities[i][2] = call.answers.sharks[i].p

\* The second investor's classifier fails and the other two score.
C8_Witness ==
    /\ call.op = "predict_sharks"
    /\ result.raised = "none"
    /\ call.answers.sharks[1] = [kind |-> "prob", p |-> 700000]
    /\ call.answers.sharks[2].kind = "raise"
    /\ call.answers.sharks[3] = [kind |-> "prob", p |-> 400000]
    /\ result.value.probabilities[1][2] = 700000
    /\ result.value.probabilities[2][2] = 0
    /\ result.value.probabilities[3][2] = 400000

\* The query is empty or blank, or the vectorizer fails on it or finds none of
\* its words in it.
Unmatchable ==
    \/ ~call.answers.vec_ok
    \/ \A i \in DOMAIN call.desc : call.desc[i] \notin Vocabulary

\* C9 as stated: for a configured country, trained or not, an empty, blank or
\* unmatchable query gives the empty list and no error.
C9_Original ==
    (call.op = "find_similar_companies" /\ call.country \in Configured /\ Unmatchable) =>
        result = Ok(<<>>)

\* C9, amended: for a configured country whose similarity artifact is on disk
\* an empty, blank or unmatchable query gives the empty list and no error;
\* while the artifact is missing the call raises FileNotFoundError whatever
\* the query.
C9_EmptyWhenTrained ==
    (call.op = "find_similar_companies" /\ call.country \in Configured) =>
        IF store[call.country]["similarity"]
        THEN Unmatchable => result = Ok(<<>>)
        ELSE result.raised = "FileNotFoundError"

\* A trained country and a query of unknown words: the empty list.
C9_Witness ==
    /\ call.op = "find_similar_companies"
    /\ ArtifactPresent("similarity")
    /\ call.desc = <<"zzz">>
    /\ call.answers.vec_ok
    /\ result = Ok(<<>>)

\* A trained country and a blank query: the empty list.
C9_WitnessBlank ==
    /\ call.op = "find_similar_companies"
    /\ ArtifactPresent("similarity")
    /\ call.desc = <<" ", " ">>
    /\ result = Ok(<<>>)

\* An untrained country and an empty query: FileNotFoundError.
C9_WitnessUntrained ==
    /\ call.op = "find_similar_companies"
    /\ call.country \in Configured /\ ~store[call.country]["similarity"]
    /\ call.desc = <<>>
    /\ result.raised = "FileNotFoundError"

(***************************************************************************)
(* The HTTP endpoints (api.py).  A response is [status, body].             *)
(***************************************************************************)
no_deal_probability == 300000

\* A variant of the gate that looks at the probability alone.
no_deal_gate_probability_only(deal_pred, deal_prob) == deal_prob < no_deal_probability

\* deal_pred == 0 or deal_prob < 0.3 (api.py:165, 276).
no_deal_gate(deal_pred, deal_prob) == deal_pred = 0 \/ deal_prob < no_deal_probability

Response(status, body) == [status |-> status, body |-> body]

CountryRequired == Response(400, [success |-> FALSE, error |-> "Country is required"])

ServerError(message) == Response(500, [success |-> FALSE, error |-> message])

\* The response of predict_sharks_endpoint from what predict_deal and
\* predict_sharks gave (api.py:160-186).
sharks_response(deal, sharks) ==
    IF deal.raised # "none" THEN ServerError(deal.value)
    ELSE IF no_deal_gate(deal.value.prediction, deal.value.probability)
    THEN Response(200, [success |-> TRUE, no_deal |-> TRUE,
                        deal_probability |-> deal.value.probability,
                        message |-> "No deal predicted - no sharks would invest"])
    ELSE IF sharks.raised # "none" THEN ServerError(sharks.value)
    ELSE Response(200, [success |-> TRUE, no_deal |-> FALSE,
                        probabilities |-> sharks.value.probabilities,
                        ranked |-> sharks.value.ranked,
                        insights |-> sharks.value.insights])

\* predict_sharks_endpoint (api.py:148-186): predict_sharks is called only
\* when the gate lets the request through.
predict_sharks_endpoint(country, df, answers, st, bool_dummies) ==
    IF country = "" THEN CountryRequired
    ELSE sharks_response(predict_deal(country, df, answers.deal, st, bool_dummies),
                         predict_sharks(country, df, answers.sharks, st, bool_dummies))

\* A variant in which a deal section that is not available counts as no deal.
sharks_section_deal_required(predictions) ==
    IF predictions.sharks.available
    THEN IF ~predictions.deal.available
            \/ no_deal_gate(predictions.deal.payload.prediction,
                            predictions.deal.payload.probability)
         THEN [available |-> TRUE, no_deal |-> TRUE,
               message |-> "No deal predicted - no sharks would invest"]
         ELSE [available |-> TRUE, no_deal |-> FALSE,
               probabilities |-> predictions.sharks.payload.probabilities,
               ranked |-> predictions.sharks.payload.ranked,
               insights |-> predictions.sharks.payload.insights]
    ELSE [available |-> FALSE]

\* The sharks section of predict_all_endpoint (api.py:271-292): a deal section
\* that is not available counts as prediction 1 with probability 1.0.
sharks_section(predictions) ==
    IF predictions.sharks.available
    THEN LET deal_pred == IF predictions.deal.available
                          THEN predictions.deal.payload.prediction ELSE 1
             deal_prob == IF predictions.deal.available
                          THEN predictions.deal.payload.probability ELSE ProbScale
         IN IF no_deal_gate(deal_pred, deal_prob)
            THEN [available |-> TRUE, no_deal |-> TRUE,
                  message |-> "No deal predicted - no sharks would invest"]
            ELSE [available |-> TRUE, no_deal |-> FALSE,
                  probabilities |-> predictions.sharks.payload.probabilities,
                  ranked |-> predictions.sharks.payload.ranked,
                  insights |-> predictions.sharks.payload.insights]
    ELSE [available |-> FALSE]

\* Another section of predict_all_endpoint (api.py:247-269, 293-300).
plain_section(section) ==
    IF section.available THEN [available |-> TRUE, payload |-> section.payload]
    ELSE [available |-> FALSE]

\* The response of predict_all_endpoint from the result of predict_all
\* (api.py:247-302).
all_response(predictions) ==
    Response(200, [success |-> TRUE,
                   deal |-> plain_section(predictions.deal),
                   valuation |-> plain_section(predictions.valuation),
                   sharks |-> sharks_section(predictions),
                   similar_companies |-> plain_section(predictions.similar_companies)])

\* predict_all_endpoint (api.py:222-307).
predict_all_endpoint(country, df, desc, answers, st, bool_dummies) ==
    IF country = "" THEN CountryRequired
    ELSE all_response(predict_all(country, df, desc, answers, st, bool_dummies).value)

\* The country of a request: one of Countries, or none given.
RequestCountries == Countries \cup {""}

ApiPredictSharks ==
    /\ call.op = "none"
    /\ \E country \in RequestCountries, df \in FacadeRecords :
       \E deal \in ModelAnswers(country, "deal", DealProbs), sharks \in SharkAnswers(country) :
         LET answers == [NoAnswers EXCEPT !.deal = deal, !.sharks = sharks]
         IN /\ call' = [NoCall EXCEPT !.op = "api_predict_sharks", !.country = country,
                                      !.df = df, !.answers = answers]
            /\ result' = predict_sharks_endpoint(country, df, answers, store, pandas_bool)
    /\ UNCHANGED <<pandas_bool, stage, art, rec, out, mv_in, mv_out, store>>

ApiPredictAll ==
    /\ call.op = "none"
    /\ \E country \in RequestCountries, df \in FacadeRecords, desc \in AllTexts :
       \E deal \in ModelAnswers(country, "deal", DealProbs),
          valuation \in ModelAnswers(country, "valuation", VLogs),
          sharks \in SharkAnswers(country),
          vec_ok \in VectorizerAnswers(country, desc) :
         LET answers == [deal |-> deal, valuation |-> valuation, sharks |-> sharks,
                         vec_ok |-> vec_ok]
         IN /\ call' = [NoCall EXCEPT !.op = "api_predict_all", !.country = country, !.df = df,
                                      !.desc = desc, !.answers = answers]
            /\ result' = predict_all_endpoint(country, df, desc, answers, store, pandas_bool)
    /\ UNCHANGED <<pandas_bool, stage, art, rec, out, mv_in, mv_out, store>>

NextApi == Train \/ ApiPredictSharks \/ ApiPredictAll

SpecApi == InitFacade /\ [][NextApi]_vars

\* The deal model scored the request's record.
DealScored ==
    /\ ArtifactPresent("deal")
    /\ RecordPreprocessed
    /\ call.answers.deal.kind = "prob"

\* The deal prediction of the request has label 0 or probability below 0.3.
DealNegative ==
    /\ DealScored
    /\ \/ call.answers.deal.p * 100 < 65 * ProbScale
       \/ call.answers.deal.p * 10 < 3 * ProbScale

InvestorFields == {"probabilities", "ranked", "insights"}

\* C11 as stated: whenever the deal prediction has label 0 or probability
\* below 0.3, the investor section of the /api/predict/sharks and
\* /api/predict/all responses is the no_deal answer and exposes no investor
\* probabilities, ranking or insights.
C11_Original ==
    /\ (call.op = "api_predict_sharks" /\ DealNegative) =>
          /\ "no_deal" \in DOMAIN result.body /\ result.body.no_deal
          /\ DOMAIN result.body \cap InvestorFields = {}
    /\ (call.op = "api_predict_all" /\ DealNegative) =>
          /\ "no_deal" \in DOMAIN result.body.sharks /\ result.body.sharks.no_deal
          /\ DOMAIN result.body.sharks \cap InvestorFields = {}

\* C11, amended: whenever the deal prediction has label 0 or probability below
\* 0.3, the investor section exposes no investor probabilities, ranking or
\* insights; it is the no_deal answer in /api/predict/sharks, and in
\* /api/predict/all when the investor prediction is available, and
\* available = false alone when it is not.
C11_NoInvestorsAfterNoDeal ==
    /\ (call.op = "api_predict_sharks" /\ DealNegative) =>
          /\ result.status = 200
          /\ "no_deal" \in DOMAIN result.body /\ result.body.no_deal
          /\ DOMAIN result.body \cap InvestorFields = {}
    /\ (call.op = "api_predict_all" /\ DealNegative) =>
          /\ DOMAIN result.body.sharks \cap InvestorFields = {}
          /\ IF ArtifactPresent("sharks")
             THEN "no_deal" \in DOMAIN result.body.sharks /\ result.body.sharks.no_deal
             ELSE result.body.sharks = [available |-> FALSE]

\* The deal model answers 0.3 (label 0, not below 0.3), the investor models
\* score, and /api/predict/all gives the no_deal answer.
C11_Witness ==
    /\ call.op = "api_predict_all"
    /\ DealScored /\ call.answers.deal.p = 300000
    /\ ArtifactPresent("sharks")
    /\ \E i \in DOMAIN call.answers.sharks : call.answers.sharks[i].kind = "prob"
    /\ result.body.sharks = [available |-> TRUE, no_deal |-> TRUE,
                             message |-> "No deal predicted - no sharks would invest"]

\* /api/predict/sharks on the same deal answer.
C11_WitnessSharks ==
    /\ call.op = "api_predict_sharks"
    /\ DealScored /\ call.answers.deal.p = 300000
    /\ result.status = 200 /\ result.body.no_deal

\* A deal predicted: the investors are exposed.
C11_WitnessDeal ==
    /\ call.op = "api_predict_all"
    /\ DealScored /\ call.answers.deal.p = 650000
    /\ ArtifactPresent("sharks")
    /\ ~result.body.sharks.no_deal
    /\ InvestorFields \subseteq DOMAIN result.body.sharks

(***************************************************************************)
(* encode_canonical_features on its own: a fit run gives the vocabulary,   *)
(* then a batch is encoded in reuse mode.                                  *)
(***************************************************************************)
FitIndustries == {"Food", "Tech", "Unknown"}
EncodeIndustries == {"Food", "Tech", "Zoo", NA}

EncodeDF(n, ind, ask) ==
    MkDF(n, << <<"industry", "obj", ind>>, <<"ask_amount", "num", ask>> >>)

EncodeReuse ==
    /\ call.op = "none"
    /\ \E m \in 1..MaxRows, n \in 1..MaxBatch :
       \E fit_ind \in OptCol(m, FitIndustries), ind \in OptCol(n, EncodeIndustries),
          ask \in {<<>>, Const(n, 4)} :
          LET encoder_dict == encode_fit(EncodeDF(m, fit_ind, <<>>), pandas_bool).encoder_dict
              df == EncodeDF(n, ind, ask)
          IN /\ call' = [op |-> "encode_canonical_features", df |-> df,
                         encoder_dict |-> encoder_dict]
             /\ result' = Ok(encode_reuse(df, encoder_dict, pandas_bool))
    /\ UNCHANGED <<pandas_bool, stage, art, rec, out, mv_in, mv_out, store>>

InitEncode ==
    /\ pandas_bool \in BOOLEAN
    /\ stage = "init"
    /\ art = NoArtifact
    /\ rec = EmptyDF(0)
    /\ out = NoOutput
    /\ mv_in = EmptyDF(0)
    /\ mv_out = EmptyDF(0)
    /\ store = NoStore
    /\ call = NoCall
    /\ result = NoResult

NextEncode == EncodeReuse

SpecEncode == InitEncode /\ [][NextEncode]_vars

\* The indicator column of a row's industry; a missing industry has none.
IndicatorOf(industry) == IF industry = NA THEN "" ELSE "industry_" \o industry

\* C12: in reuse mode encode_canonical_features returns, after the other
\* columns of the input, exactly the indicator columns of
\* encoder_dict['industry_columns']: a row has 1 in the column of its industry
\* when that column is stored and 0 in every other stored column, so a row of
\* an unseen industry is all 0 and adds no column, a stored category absent
\* from the input is an all-zero column, and the call does not raise.
C12_ReuseVocabulary ==
    call.op = "encode_canonical_features" =>
        LET df == call.df
            voc == call.encoder_dict.industry_columns
            encoded == result.value
        IN /\ result.raised = "none"
           /\ encoded.cols = DropCols(df, {"industry"}).cols \o voc
           /\ encoded.n = df.n
           /\ \A c \in Range(voc) : \A i \in 1..df.n :
                encoded.val[c][i] =
                    IF HasCol(df, "industry") /\ IndicatorOf(df.val["industry"][i]) = c
                    THEN 1 ELSE 0

\* One batch with a row of a seen industry and a row of an unseen one, and a
\* stored category that no row has.
C12_Witness ==
    /\ call.op = "encode_canonical_features"
    /\ call.encoder_dict.industry_columns = <<"industry_Food", "industry_Tech">>
    /\ call.df.n = 2
    /\ HasCol(call.df, "industry")
    /\ call.df.val["industry"] = <<"Tech", "Zoo">>
    /\ result.value.val["industry_Tech"] = <<1, 0>>
    /\ result.value.val["industry_Food"] = <<0, 0>>
    /\ ~HasCol(result.value, "industry_Zoo")

\* A batch without an industry column: every stored column is all zero.
C12_WitnessNoIndustry ==
    /\ call.op = "encode_canonical_features"
    /\ ~HasCol(call.df, "industry")
    /\ call.encoder_dict.industry_columns = <<"industry_Food", "industry_Tech">>
    /\ result.value.val["industry_Tech"] = Const(call.df.n, 0)

(***************************************************************************)
(* The valuation returned by predict_valuation.                            *)
(***************************************************************************)
RECURSIVE Pow(_, _)
Pow(b, k) == IF k = 0 THEN 1 ELSE b * Pow(b, k - 1)

\* y, in thousandths, is e^v - 1 to the nearest thousandth, for an integer v:
\* by 2.71 < e < 2.72, e^v is between 2.71^v and 2.72^v for v >= 0 and between
\* 1 / 2.72^(-v) and 1 / 2.71^(-v) for v < 0.
IsExpm1(v, y) ==
    IF v >= 0
    THEN /\ (y + 1001) * Pow(100, v) >= 1000 * Pow(271, v)
         /\ (y + 999) * Pow(100, v) <= 1000 * Pow(272, v)
    ELSE /\ (y + 1001) * Pow(272, 0 - v) >= 1000 * Pow(100, 0 - v)
         /\ (y + 999) * Pow(271, 0 - v) <= 1000 * Pow(100, 0 - v)

\* C13: predict_valuation returns valuation = expm1(v_log) of the model's
\* log-space output v_log, and the confidence range (0.7 * valuation,
\* 1.3 * valuation), whatever the output (the valuation in thousandths, the
\* range in ten-thousandths).
C13_ExpmOneAndBand ==
    (call.op = "predict_valuation" /\ call.answers.valuation.kind = "prob"
       /\ RecordPreprocessed) =>
        /\ result.raised = "none"
        /\ IsExpm1(call.answers.valuation.p, result.value.valuation)
        /\ result.value.confidence_range[1] = 7 * result.value.valuation
        /\ result.value.confidence_range[2] = 13 * result.value.valuation

\* The model gives 2 in log space: the valuation is 6.389, the range
\* (4.4723, 8.3057).
C13_Witness ==
    /\ call.op = "predict_valuation"
    /\ call.answers.valuation = [kind |-> "prob", p |-> 2]
    /\ result = Ok([valuation |-> 6389, confidence_range |-> <<44723, 83057>>])

\* The model gives -1 in log space: the valuation is negative, and the first
\* end of the range is above the second.
C13_WitnessNegative ==
    /\ call.op = "predict_valuation"
    /\ call.answers.valuation = [kind |-> "prob", p |-> -1]
    /\ result.raised = "none"
    /\ result.value.valuation = -632
    /\ result.value.confidence_range[1] > result.value.confidence_range[2]

(***************************************************************************)
(* The schema adapters (data_adapters/base.py, data_adapters/india.py).    *)
(* A column_mapping is the sequence of its <<canonical field, raw column>> *)
(* items, a raw column being a name, None or the string 'null'; a roster   *)
(* is a sequence of [name, present_column, investment_amount,              *)
(* investment_equity] with a column name or None in each of the three.     *)
(* The cells of the raw columns are numbers of their own, none 0 or NaN.   *)
(***************************************************************************)
None == "<None>"

\* shark_name.lower() on the names of the roster.
lower(name) ==
    CASE name = "Namita" -> "namita"
      [] name = "Vineeta" -> "vineeta"
      [] name = "Anupam" -> "anupam"
      [] name = "Aman" -> "aman"
      [] name = "Peyush" -> "peyush"
      [] name = "Ritesh" -> "ritesh"
      [] name = "Amit" -> "amit"
      [] name = "Ashneer" -> "ashneer"
      [] name \in {"India", "INDIA"} -> "india"
      [] name = "US" -> "us"
      [] name = "Australia" -> "australia"
      [] name = "Atlantis" -> "atlantis"
      [] OTHER -> name

\* column_mapping.get(key)
mapping_get(column_mapping, key) ==
    IF \E k \in DOMAIN column_mapping : column_mapping[k][1] = key
    THEN column_mapping[CHOOSE k \in DOMAIN column_mapping : column_mapping[k][1] = key][2]
    ELSE None

\* Map columns to canonical schema (base.py:81-89).
RECURSIVE map_columns(_, _, _)
map_columns(df_canonical, column_mapping, df) ==
    IF column_mapping = <<>> THEN df_canonical
    ELSE LET canonical_col == Head(column_mapping)[1]
             raw_col == Head(column_mapping)[2]
             next == IF raw_col = None \/ raw_col = "null"
                     THEN SetCol(df_canonical, canonical_col, "num", Const(df.n, 0))
                     ELSE IF HasCol(df, raw_col)
                     THEN SetCol(df_canonical, canonical_col, df.dt[raw_col], df.val[raw_col])
                     ELSE SetCol(df_canonical, canonical_col, "num", Const(df.n, NaN))
         IN map_columns(next, Tail(column_mapping), df)

\* Add business description if available (base.py:91-96).
add_description(df_canonical, column_mapping, df) ==
    LET desc_col == mapping_get(column_mapping, "business_description")
    IN IF desc_col # None /\ HasCol(df, desc_col)
       THEN SetCol(df_canonical, "business_description", df.dt[desc_col], df.val[desc_col])
       ELSE IF HasCol(df, "Business Description")
       THEN SetCol(df_canonical, "business_description", df.dt["Business Description"],
                   df.val["Business Description"])
       ELSE df_canonical

name_cols == <<"Startup Name", "Company Name", "Name">>

\* Add startup name if available (base.py:98-103).
add_startup_name(df_canonical, df) ==
    LET found == SelectSeq(name_cols, LAMBDA col : HasCol(df, col))
    IN IF found = <<>> THEN df_canonical
       ELSE SetCol(df_canonical, "startup_name", df.dt[found[1]], df.val[found[1]])

\* A variant of the default adapter's investor field that tells a named
\* column that is not in the data from a column the roster leaves out.
shark_field_three_way(df_canonical, canonical_col, raw_col, df) ==
    IF raw_col = None THEN SetCol(df_canonical, canonical_col, "num", Const(df.n, 0))
    ELSE IF HasCol(df, raw_col)
    THEN SetCol(df_canonical, canonical_col, df.dt[raw_col], df.val[raw_col])
    ELSE SetCol(df_canonical, canonical_col, "num", Const(df.n, NaN))

\* One investor field of the default adapter (base.py:115-118, 124-127,
\* 129-132).
shark_field(df_canonical, canonical_col, raw_col, df) ==
    IF raw_col # None /\ HasCol(df, raw_col)
    THEN SetCol(df_canonical, canonical_col, df.dt[raw_col], df.val[raw_col])
    ELSE SetCol(df_canonical, canonical_col, "num", Const(df.n, 0))

\* Add shark present and investment columns (base.py:105-132).
RECURSIVE add_sharks(_, _, _)
add_sharks(df_canonical, sharks_list, df) ==
    IF sharks_list = <<>> THEN df_canonical
    ELSE LET shark == Head(sharks_list)
             shark_lower == lower(shark.name)
             d1 == shark_field(df_canonical, shark_lower \o "_present",
                               shark.present_column, df)
             d2 == shark_field(d1, shark_lower \o "_investment_amount",
                               shark.investment_amount, df)
             d3 == shark_field(d2, shark_lower \o "_investment_equity",
                               shark.investment_equity, df)
         IN IF shark.name = "" THEN add_sharks(df_canonical, Tail(sharks_list), df)
            ELSE add_sharks(d3, Tail(sharks_list), df)

\* BaseAdapter.to_canonical (base.py:55-134).
base_to_canonical(column_mapping, sharks, df) ==
    LET mapped == map_columns(EmptyDF(df.n), column_mapping, df)
        described == add_description(mapped, column_mapping, df)
        named == add_startup_name(described, df)
    IN add_sharks(named, sharks, df)

\* The main columns of the India adapter (india.py:24-43).
india_columns ==
    << <<"industry", "Industry">>, <<"ask_amount", "Original Ask Amount">>,
       <<"ask_equity", "Original Offered Equity">>,
       <<"valuation_requested", "Valuation Requested">>,
       <<"monthly_sales", "Monthly Sales">>, <<"season", "Season Number">>,
       <<"deal_amount", "Total Deal Amount">>, <<"deal_equity", "Total Deal Equity">>,
       <<"deal_valuation", "Deal Valuation">>,
       <<"business_description", "Business Description">> >>

\* if raw in df.columns: df_canonical[canonical] = df[raw], for each main column.
RECURSIVE india_map(_, _, _)
india_map(df_canonical, columns, df) ==
    IF columns = <<>> THEN df_canonical
    ELSE LET canonical_col == Head(columns)[1]
             raw_col == Head(columns)[2]
         IN india_map(IF HasCol(df, raw_col)
                      THEN SetCol(df_canonical, canonical_col, df.dt[raw_col], df.val[raw_col])
                      ELSE df_canonical,
                      Tail(columns), df)

\* One investor column of the India adapter (india.py:48-64, 67-70).
india_field(df_canonical, canonical_col, raw_col, df) ==
    IF HasCol(df, raw_col)
    THEN SetCol(df_canonical, canonical_col, df.dt[raw_col], df.val[raw_col])
    ELSE SetCol(df_canonical, canonical_col, "num", Const(df.n, 0))

\* Add shark columns (india.py:45-64).
RECURSIVE india_sharks(_, _, _)
india_sharks(df_canonical, sharks, df) ==
    IF sharks = <<>> THEN df_canonical
    ELSE LET shark == Head(sharks)
             d1 == india_field(df_canonical, lower(shark) \o "_present",
                               shark \o " Present", df)
             d2 == india_field(d1, lower(shark) \o "_investment_amount",
                               shark \o " Investment Amount", df)
             d3 == india_field(d2, lower(shark) \o "_investment_equity",
                               shark \o " Investment Equity", df)
         IN india_sharks(d3, Tail(sharks), df)

\* IndiaAdapter.to_canonical (india.py:15-72).
india_to_canonical(df) ==
    LET mapped == india_map(EmptyDF(df.n), india_columns, df)
        sharked == india_sharks(mapped, Roster, df)
    IN india_field(sharked, "ashneer_present", "Ashneer Present", df)

(***************************************************************************)
(* The adapters as a state machine: one conversion of a raw data set.      *)
(***************************************************************************)
RawColumns ==
    <<"Industry", "Monthly Sales", "Pitch", "Business Description", "Brand", "Startup Name",
      "Aman Present", "Aman Investment Amount", "Aman Investment Equity", "Ashneer Present">>

\* pd.read_csv: a raw data set of MaxRows rows with the given columns; the
\* cell of the k-th raw column in row i is 10 * k + i.
RawDF(present) ==
    LET columns == SelectSeq(RawColumns, LAMBDA c : c \in present)
        index(c) == CHOOSE k \in DOMAIN RawColumns : RawColumns[k] = c
    IN [cols |-> columns,
        dt   |-> [c \in Range(columns) |-> "num"],
        n    |-> MaxRows,
        val  |-> [c \in Range(columns) |-> [i \in 1..MaxRows |-> 10 * index(c) + i]]]

\* The column mappings explored: industry and monthly_sales declared (the
\* second possibly absent for the country), business_description and
\* startup_name declared or not.
Mappings ==
    { << <<"industry", "Industry">>, <<"monthly_sales", ms>> >> \o desc \o name :
        ms \in {None, "Monthly Sales"},
        desc \in {<<>>, << <<"business_description", None>> >>,
                  << <<"business_description", "Pitch">> >>},
        name \in {<<>>, << <<"startup_name", "Brand">> >>} }

\* The rosters explored: one investor, each of its three columns named or not.
Rosters ==
    { << [name |-> "Aman", present_column |-> p, investment_amount |-> a,
          investment_equity |-> e] >> :
        p \in {None, "Aman Present"}, a \in {None, "Aman Investment Amount"},
        e \in {None, "Aman Investment Equity"} }

\* The mapping of the India configuration, on the raw columns the India
\* adapter reads.
IndiaMapping ==
    << <<"industry", "Industry">>, <<"monthly_sales", "Monthly Sales">>,
       <<"business_description", "Business Description">> >>

BaseToCanonical ==
    /\ call.op = "none"
    /\ \E column_mapping \in Mappings, sharks \in Rosters,
          present \in SUBSET (Range(RawColumns) \ {"Industry", "Ashneer Present"}) :
          LET df == RawDF(present \cup {"Industry"})
          IN /\ call' = [op |-> "to_canonical", adapter |-> "base",
                         column_mapping |-> column_mapping, sharks |-> sharks, df |-> df]
             /\ result' = Ok(base_to_canonical(column_mapping, sharks, df))
    /\ UNCHANGED <<pandas_bool, stage, art, rec, out, mv_in, mv_out, store>>

IndiaToCanonical ==
    /\ call.op = "none"
    /\ \E present \in SUBSET Range(RawColumns) :
          LET df == RawDF(present)
          IN /\ call' = [op |-> "to_canonical", adapter |-> "india",
                         column_mapping |-> IndiaMapping, sharks |-> <<>>, df |-> df]
             /\ result' = Ok(india_to_canonical(df))
    /\ UNCHANGED <<pandas_bool, stage, art, rec, out, mv_in, mv_out, store>>

NextAdapter == BaseToCanonical \/ IndiaToCanonical

SpecAdapter == InitMissing /\ [][NextAdapter]_vars

\* What the three-way policy gives for a raw column: the column of the data,
\* 0 when no column is named, the missing-value marker when the named column
\* is not in the data.
ThreeWay(raw_col, df) ==
    IF raw_col = None \/ raw_col = "null" THEN Const(df.n, 0)
    ELSE IF HasCol(df, raw_col) THEN df.val[raw_col]
    ELSE Const(df.n, NaN)

\* C14: BaseAdapter.to_canonical emits, for every canonical field declared in
\* column_mapping, the raw column's values when the mapped raw column is in
\* the data, the constant 0 when the mapping marks the field absent, and the
\* missing-value marker on every row when the mapped raw column is not in
\* the data.
C14_Original ==
    (call.op = "to_canonical" /\ call.adapter = "base") =>
        \A k \in DOMAIN call.column_mapping :
            LET canonical_col == call.column_mapping[k][1]
                raw_col == call.column_mapping[k][2]
            IN /\ HasCol(result.value, canonical_col)
               /\ result.value.val[canonical_col] = ThreeWay(raw_col, call.df)

InvestorFieldsOf(shark) ==
    << <<lower(shark.name) \o "_present", shark.present_column>>,
       <<lower(shark.name) \o "_investment_amount", shark.investment_amount>>,
       <<lower(shark.name) \o "_investment_equity", shark.investment_equity>> >>

\* C15 as stated: each of the three canonical fields of each investor of the
\* roster follows the three-way policy on its own: the raw column when it
\* is in the data, 0 when the roster names no column, the missing-value marker
\* when the named column is not in the data.
C15_Original ==
    (call.op = "to_canonical" /\ call.adapter = "base") =>
        \A s \in DOMAIN call.sharks : \A f \in 1..3 :
            LET field == InvestorFieldsOf(call.sharks[s])[f]
            IN /\ HasCol(result.value, field[1])
               /\ result.value.val[field[1]] = ThreeWay(field[2], call.df)

\* C15, amended: each of the three canonical fields of each investor of the
\* roster is, on its own, the raw column when the roster names a column that
\* is in the data, and the constant 0 otherwise: when the roster names no
\* column and also when the named column is not in the data.
C15_CopyOrZero ==
    (call.op = "to_canonical" /\ call.adapter = "base") =>
        \A s \in DOMAIN call.sharks : \A f \in 1..3 :
            LET field == InvestorFieldsOf(call.sharks[s])[f]
            IN /\ HasCol(result.value, field[1])
               /\ result.value.val[field[1]] =
                    IF field[2] # None /\ HasCol(call.df, field[2])
                    THEN call.df.val[field[2]]
                    ELSE Const(call.df.n, 0)

\* One investor with its present column in the data, no amount column named,
\* and an equity column named that the data do not have.
C15_Witness ==
    /\ call.op = "to_canonical" /\ call.adapter = "base"
    /\ call.sharks[1].present_column = "Aman Present"
    /\ call.sharks[1].investment_amount = None
    /\ call.sharks[1].investment_equity = "Aman Investment Equity"
    /\ HasCol(call.df, "Aman Present")
    /\ ~HasCol(call.df, "Aman Investment Equity")
    /\ result.value.val["aman_present"] = call.df.val["Aman Present"]
    /\ result.value.val["aman_investment_amount"] = Const(call.df.n, 0)
    /\ result.value.val["aman_investment_equity"] = Const(call.df.n, 0)

\* The investors the output has a field of.
EmittedInvestors ==
    {shark \in Range(Roster) \cup {"Ashneer"} :
        \E suffix \in {"_present", "_investment_amount", "_investment_equity"} :
            HasCol(result.value, lower(shark) \o suffix)}

\* C16: the output of IndiaAdapter.to_canonical holds every canonical field
\* declared in the country's column_mapping, with the raw column's values, or
\* 0 or the missing-value marker when the raw column is not in the data, and
\* all three investor fields of every investor it emits.
C16_Original ==
    (call.op = "to_canonical" /\ call.adapter = "india") =>
        /\ \A k \in DOMAIN call.column_mapping :
             LET canonical_col == call.column_mapping[k][1]
                 raw_col == call.column_mapping[k][2]
             IN /\ HasCol(result.value, canonical_col)
                /\ IF HasCol(call.df, raw_col)
                   THEN result.value.val[canonical_col] = call.df.val[raw_col]
                   ELSE result.value.val[canonical_col]
                            \in {Const(call.df.n, 0), Const(call.df.n, NaN)}
        /\ \A shark \in EmittedInvestors :
             \A suffix \in {"_present", "_investment_amount", "_investment_equity"} :
                HasCol(result.value,
                       lower(shark) \o suffix)


(***************************************************************************)
(* A country without a configuration document.                             *)
(***************************************************************************)
Unconfigured == call.op # "none" /\ call.country \notin Configured

ConfigurationError == Raise("ValueError", "Configuration file not found for country")

\* C17 as stated: for a country that has no configuration document, each of
\* predict_deal, predict_valuation, predict_sharks, find_similar_companies and
\* predict_all raises the configuration error to its caller.
C17_Original ==
    Unconfigured => result = ConfigurationError

\* C17 amended: for a country that has no configuration document,
\* predict_deal, predict_valuation, predict_sharks and find_similar_companies
\* raise the configuration error to their caller, whatever artifacts exist;
\* predict_all does not raise: it returns each of the deal, valuation and
\* investor sections, and the similar-companies section when the record has a
\* description, as unavailable with the text of the configuration error.
C17_ConfigurationErrorOrUnavailable ==
    Unconfigured =>
        IF call.op = "predict_all"
        THEN /\ result.raised = "none"
             /\ \A s \in {"deal", "valuation", "sharks"} :
                   result.value[s] = [available |-> FALSE, error |-> ConfigurationError.value]
             /\ result.value.similar_companies =
                   IF call.desc # <<>> /\ ~IsBlank(call.desc)
                   THEN [available |-> FALSE, error |-> ConfigurationError.value]
                   ELSE [available |-> FALSE, message |-> "No description provided"]
        ELSE result = ConfigurationError

\* predict_all was called for the country without a configuration document,
\* with a description, while artifacts of other countries exist.
C17_Witness ==
    /\ Unconfigured /\ call.op = "predict_all"
    /\ call.desc = <<"solar">>
    /\ store["India"]["deal"]
    /\ result.value.similar_companies = [available |-> FALSE, error |-> ConfigurationError.value]

\* predict_deal and find_similar_companies raised the configuration error.
C17_WitnessDeal ==
    Unconfigured /\ call.op = "predict_deal" /\ result = ConfigurationError

C17_WitnessSimilar ==
    Unconfigured /\ call.op = "find_similar_companies" /\ result = ConfigurationError

(***************************************************************************)
(* The ranking of find_similar_companies.                                  *)
(***************************************************************************)
\* The query of the call reached the similarity computation.
Ranked ==
    /\ call.op = "find_similar_companies"
    /\ result.raised = "none"
    /\ call.desc # <<>> /\ ~IsBlank(call.desc)
    /\ call.answers.vec_ok

\* The similarity of stored row i to the query of the call.
SimilarityOf(i) == cosine_similarity(vectorize(call.desc), Corpus(call.country)[i])

PositiveRows == {i \in DOMAIN Corpus(call.country) : SimilarityOf(i)[1] > 0}

ReturnedRows == {result.value[k].row : k \in DOMAIN result.value}

\* C18: find_similar_companies with a non-empty query returns at most top_n
\* entries, each a distinct stored row with its similarity, every similarity
\* strictly greater than zero, in non-increasing order of similarity; no
\* stored row of positive similarity that is left out has a higher similarity
\* than a returned one; and when fewer than top_n rows have positive
\* similarity, exactly those rows are returned.
C18_TopPositive ==
    Ranked =>
        /\ Len(result.value) <= call.top_n
        /\ Cardinality(ReturnedRows) = Len(result.value)
        /\ \A k \in DOMAIN result.value :
              /\ result.value[k].row \in DOMAIN Corpus(call.country)
              /\ result.value[k].similarity_score = SimilarityOf(result.value[k].row)
              /\ result.value[k].similarity_score[1] > 0
        /\ \A k, l \in DOMAIN result.value :
              k < l => ~SimLess(result.value[k].similarity_score, result.value[l].similarity_score)
        /\ \A i \in DOMAIN Corpus(call.country) \ ReturnedRows :
              \A k \in DOMAIN result.value :
                  ~SimLess(result.value[k].similarity_score, SimilarityOf(i))
        /\ Cardinality(PositiveRows) < call.top_n => ReturnedRows = PositiveRows
        /\ Cardinality(PositiveRows) >= call.top_n => Len(result.value) = call.top_n

\* Two rows have positive similarity and one was asked for: the higher one
\* is returned and the lower one left out.
C18_Witness ==
    /\ Ranked /\ call.top_n = 1
    /\ Cardinality(PositiveRows) = 2
    /\ Len(result.value) = 1
    /\ \E i \in PositiveRows \ ReturnedRows :
          SimLess(SimilarityOf(i), result.value[1].similarity_score)

\* Fewer rows have positive similarity than were asked for.
C18_WitnessFewer ==
    /\ Ranked /\ call.top_n = 2
    /\ Cardinality(PositiveRows) = 1
    /\ ReturnedRows = PositiveRows


(***************************************************************************)
(* The transform-only pipeline on a batch of several records: the pipeline *)
(* state is the one a training run on a country's corpus persisted.        *)
(***************************************************************************)
InferenceIndustries == {"Tech", "Zoo"}
InferenceAmounts == {NaN, 2, 4}
InferenceSales == {0, 1}

\* preprocess_canonical(df, fit=True) on the corpus of a configured country
\* (train_deal.py:68-70).
FitCorpus ==
    /\ stage = "init"
    /\ \E country \in Configured : art' = TrainedArtifact(country, pandas_bool)
    /\ stage' = "fitted"
    /\ UNCHANGED <<pandas_bool, rec, out, mv_in, mv_out, store, call, result>>

\* A batch of n records in canonical form.
InferenceDF(n, ind, ask, ms, pres) ==
    MkDF(n, << <<"industry", "obj", ind>>, <<"ask_amount", "num", ask>>,
               <<"monthly_sales", "num", ms>>, <<"aman_present", "num", pres>> >>)

\* preprocess_canonical(df, fit=False, encoder_dict, scaler, feature_names) on
\* a batch of one or several records.
TransformBatch ==
    /\ stage = "fitted"
    /\ \E n \in 1..MaxRecords :
       \E ind \in OptCol(n, InferenceIndustries), ask \in OptCol(n, InferenceAmounts),
          ms \in OptCol(n, InferenceSales), pres \in {<<>>, Const(n, 1)} :
          LET df == InferenceDF(n, ind, ask, ms, pres)
          IN /\ rec' = df
             /\ out' = preprocess_transform(df, art.encoder_dict, art.scaler,
                                            art.feature_names, pandas_bool)
    /\ stage' = "transformed"
    /\ UNCHANGED <<pandas_bool, art, mv_in, mv_out, store, call, result>>

NextBatch == FitCorpus \/ TransformBatch

SpecBatch == Init /\ [][NextBatch]_vars

\* The matrix of the batch as the scaling step receives it: encoded and
\* aligned to feature_names.
BeforeScaling ==
    Align(encode_reuse(DropOutcomes(select_canonical_features(
              handle_missing_values_canonical(rec), FALSE)),
                       art.encoder_dict, pandas_bool),
          art.feature_names)

\* (v - mean) / std of the fitted scaler for column c, as a fraction.
Standardized(c, v) ==
    LET variance == art.scaler.n * art.scaler.sumsq[c] - art.scaler.sum[c] * art.scaler.sum[c]
    IN <<art.scaler.n * v - art.scaler.sum[c],
         IF variance = 0 THEN art.scaler.n * art.scaler.n ELSE variance>>

\* C19: in transform-only mode with a fitted scaler, for every batch of one
\* or several records, the call does not raise and the columns standardized
\* are exactly the columns the scaler was fitted on that the matrix has: each
\* holds (v - mean) / std of its value v, and every other column holds its
\* value unchanged.
C19_Original ==
    (stage = "transformed" /\ art.scaler.fitted) =>
        /\ ~out.raised
        /\ \A c \in Range(BeforeScaling.cols) : \A i \in 1..rec.n :
              out.X.val[c][i] =
                  IF InSeq(c, art.scaler.features)
                  THEN Standardized(c, BeforeScaling.val[c][i])
                  ELSE <<BeforeScaling.val[c][i], 1>>


(***************************************************************************)
(* The fit pipeline on a training batch, with the batch and the returned   *)
(* matrix kept.                                                            *)
(***************************************************************************)
FitBatchIndustries == {"Tech", "Food"}

\* preprocess_canonical(df, fit=True): X, and the pipeline state fitted.
FitBatch ==
    /\ stage = "init"
    /\ \E n \in 1..MaxRows :
       \E ind \in OptCol(n, FitBatchIndustries), ask \in OptCol(n, TrainAmounts),
          ms \in {<<>>, Const(n, 0)}, pres \in OptCol(n, {0, 1}),
          oc \in {<<"none">>, <<"all">>} :
            LET fit == preprocess_fit(TrainDF(n, ind, ask, ms, pres, oc), pandas_bool)
            IN /\ rec' = TrainDF(n, ind, ask, ms, pres, oc)
               /\ out' = [raised |-> FALSE, X |-> fit.X]
               /\ art' = Artifact(fit)
    /\ stage' = "fitted"
    /\ UNCHANGED <<pandas_bool, mv_in, mv_out, store, call, result>>

NextFit == FitBatch

SpecFit == Init /\ [][NextFit]_vars

\* The matrix of the training batch as the scaling step receives it.
BeforeFitScaling ==
    LET df2 == create_canonical_targets(handle_missing_values_canonical(rec))
    IN encode_fit(DropOutcomes(select_canonical_features(df2, HasCol(df2, "deal"))),
                  pandas_bool).df

\* Two cells <<num, sq>> denote the same number num / sqrt(sq).
SameNumber(a, b) ==
    \/ a[1] = 0 /\ b[1] = 0
    \/ a[1] * b[1] > 0 /\ a[1] * a[1] * b[2] = b[1] * b[1] * a[2]

\* The numeric columns of the batch with at most one, and with exactly two,
\* distinct values.
ConstantCols == {c \in Range(NumericCols(BeforeFitScaling)) :
                    NUnique(BeforeFitScaling.val[c]) <= 1}
TwoValuedCols == {c \in Range(NumericCols(BeforeFitScaling)) :
                    NUnique(BeforeFitScaling.val[c]) = 2}

\* C20 as stated: in fit mode a numeric column that is empty or constant over
\* the batch, and a column with exactly two distinct values, has in the
\* returned X the values it had before scaling.
C20_Original ==
    stage = "fitted" =>
        \A c \in ConstantCols \cup TwoValuedCols : \A i \in 1..rec.n :
            SameNumber(out.X.val[c][i], <<BeforeFitScaling.val[c][i], 1>>)

\* C20 amended: in fit mode scaling does not raise on a numeric column that is
\* empty or constant over the batch; such a column is not skipped: the scaler
\* is fitted on it and every value of it in the returned X is 0, the value
\* minus the column mean over a unit scale.  A column with exactly two distinct
\* values is left as it was and the scaler is not fitted on it.
C20_ConstantCentered ==
    stage = "fitted" =>
        /\ ~out.raised
        /\ \A c \in ConstantCols :
              /\ InSeq(c, art.scaler.features)
              /\ \A i \in 1..rec.n : out.X.val[c][i] = <<0, rec.n * rec.n>>
        /\ \A c \in TwoValuedCols :
              /\ ~InSeq(c, art.scaler.features)
              /\ \A i \in 1..rec.n : out.X.val[c][i] = <<BeforeFitScaling.val[c][i], 1>>

\* A batch of two rows with a constant ask_amount of 4 and an investor
\* indicator of two values.
C20_Witness ==
    /\ stage = "fitted" /\ rec.n = 2
    /\ HasCol(rec, "ask_amount") /\ rec.val["ask_amount"] = <<4, 4>>
    /\ "ask_amount" \in ConstantCols
    /\ HasCol(rec, "aman_present") /\ "aman_present" \in TwoValuedCols
    /\ out.X.val["ask_amount"][1][1] = 0

\* A batch whose ask_amount is missing in every row.
C20_WitnessEmpty ==
    /\ stage = "fitted" /\ rec.n = 2
    /\ HasCol(rec, "ask_amount") /\ rec.val["ask_amount"] = <<NaN, NaN>>
    /\ "ask_amount" \in ConstantCols


(***************************************************************************)
(* train_sharks.py: one classifier and one insights summary for each       *)
(* investor that can be trained, and the insights predict_sharks phrases   *)
(* from the summaries.  An importance is in thousandths; an investment     *)
(* rate is the pair <<positive episodes, episodes>>.                       *)
(***************************************************************************)
importance_threshold == 50

\* shark_names of the configuration (train_sharks.py:59).
TrainRoster == <<"Namita", "Aman">>

\* Create shark targets (train_sharks.py:71-77).
RECURSIVE add_invested(_, _)
add_invested(df, shark_names) ==
    IF shark_names = <<>> THEN df
    ELSE LET shark_lower == lower(Head(shark_names))
             inv_amount_col == shark_lower \o "_investment_amount"
             column == IF HasCol(df, inv_amount_col) THEN Positive(df.val[inv_amount_col])
                       ELSE Const(df.n, 0)
         IN add_invested(SetCol(df, shark_lower \o "_invested", "num", column),
                         Tail(shark_names))

\* y_shark: the targets of the episodes where the investor was present
\* (train_sharks.py:106-109).
y_shark(df, shark) ==
    LET rows == SelectSeq([i \in 1..df.n |-> i],
                          LAMBDA i : df.val[lower(shark) \o "_present"][i] = 1)
    IN [k \in DOMAIN rows |-> df.val[lower(shark) \o "_invested"][rows[k]]]

\* A variant that trains a classifier for every investor that was present in
\* an episode, also when it has examples of one class only.
has_model_any_present(df, shark) ==
    /\ HasCol(df, lower(shark) \o "_invested")
    /\ HasCol(df, lower(shark) \o "_present")
    /\ Len(y_shark(df, shark)) > 0

\* Whether a classifier is trained for the investor (train_sharks.py:104-114).
has_model(df, shark) ==
    /\ HasCol(df, lower(shark) \o "_invested")
    /\ HasCol(df, lower(shark) \o "_present")
    /\ Len(y_shark(df, shark)) > 0
    /\ SumSeq(y_shark(df, shark)) > 0
    /\ Len(y_shark(df, shark)) - SumSeq(y_shark(df, shark)) > 0

\* The columns train_shark_models takes out before preprocessing
\* (train_sharks.py:82-83).
shark_outcome_vars == {"deal_amount", "deal_equity", "deal_valuation", "valuation", "deal"}

\* train_shark_models and save_shark_models (train_sharks.py:23-179): the
\* investor artifact.  top_features gives, for each trained investor, the head
\* of its importance table in descending order of importance.
train_shark_models(df0, shark_names, top_features, bool_dummies) ==
    LET df == add_invested(df0, shark_names)
        fit == preprocess_fit(DropCols(df, shark_outcome_vars), bool_dummies)
        trained == SelectSeq(shark_names, LAMBDA shark : has_model(df, shark))
    IN [shark_models  |-> trained,
        encoder_dict  |-> fit.encoder_dict,
        scaler        |-> fit.scaler,
        feature_names |-> fit.X.cols,
        insights      |-> [k \in DOMAIN trained |->
                             [shark |-> trained[k],
                              top_features |-> top_features[trained[k]],
                              investment_rate |-> <<SumSeq(y_shark(df, trained[k])),
                                                    Len(y_shark(df, trained[k]))>>]]]

\* f"{investment_rate*100:.1f}": the rate in tenths of a percent, rounded.
percent_1f(investment_rate) ==
    (2000 * investment_rate[1] + investment_rate[2]) \div (2 * investment_rate[2])

\* feature.replace('industry_', '').replace('_', ' ') (inference.py:203).
industry_name(feature) ==
    CASE feature = "industry_Tech" -> "Tech"
      [] feature = "industry_Food" -> "Food"
      [] OTHER -> feature

\* feature.replace('_', ' ').title() (inference.py:212).
readable_feat(feature) ==
    CASE feature = "ask_amount" -> "Ask Amount"
      [] feature = "ask_equity" -> "Ask Equity"
      [] feature = "monthly_sales" -> "Monthly Sales"
      [] OTHER -> feature

General == [kind |-> "General investor profile", subject |-> ""]

\* A variant in which the feature of highest importance alone decides.
insight_parts_top_only(top_features) ==
    LET valid_features == SelectSeq(top_features, LAMBDA f : f[1] \notin shark_outcome_vars)
    IN IF valid_features = <<>> THEN General
       ELSE IF StartsWith(valid_features[1][1], "industry_")
       THEN [kind |-> "prefers", subject |-> industry_name(valid_features[1][1])]
       ELSE IF valid_features[1][2] > importance_threshold
       THEN [kind |-> "key factor", subject |-> readable_feat(valid_features[1][1])]
       ELSE General

\* insight_parts of one investor (inference.py:184-216): the phrase after the
\* investment rate.
insight_parts(top_features) ==
    LET valid_features == SelectSeq(top_features, LAMBDA f : f[1] \notin shark_outcome_vars)
        industry_features == SelectSeq(valid_features,
                                       LAMBDA f : StartsWith(f[1], "industry_"))
        non_industry == SelectSeq(valid_features, LAMBDA f : ~StartsWith(f[1], "industry_"))
    IN IF industry_features # <<>>
       THEN [kind |-> "prefers", subject |-> industry_name(industry_features[1][1])]
       ELSE IF non_industry # <<>> /\ non_industry[1][2] > importance_threshold
       THEN [kind |-> "key factor", subject |-> readable_feat(non_industry[1][1])]
       ELSE General

\* Generate insights (inference.py:177-223): one line for each investor of
\* insights_data that has a model.
insights_text(insights_data, models) ==
    LET with_model == SelectSeq(insights_data, LAMBDA e : InSeq(e.shark, models))
    IN [k \in DOMAIN with_model |->
          [shark |-> with_model[k].shark,
           investment_rate |-> percent_1f(with_model[k].investment_rate),
           parts |-> insight_parts(with_model[k].top_features)]]

\* Predict for each shark (inference.py:165-172) with the models of an artifact.
shark_probs_with(models, answers) ==
    [i \in DOMAIN models |->
        <<models[i], IF answers[i].kind = "prob" THEN answers[i].p ELSE 0>>]

\* predict_sharks (inference.py:150-225) on a loaded investor artifact.
predict_sharks_artifact(model_artifact, answers) ==
    LET shark_probs == shark_probs_with(model_artifact.shark_models, answers)
    IN Ok([probabilities |-> shark_probs,
           ranked |-> sorted_reverse(shark_probs),
           insights |-> insights_text(model_artifact.insights, model_artifact.shark_models)])

(***************************************************************************)
(* Investor training and prediction as a state machine.                    *)
(***************************************************************************)
InvestedAmounts == {0, 50}

\* The head of an importance table, in descending order of importance.
TopFeatureTables ==
    { << <<"industry_Tech", 400>>, <<"ask_amount", 300>> >>,
      << <<"ask_amount", 400>>, <<"industry_Food", 100>> >>,
      << <<"ask_amount", 600>>, <<"ask_equity", 400>> >>,
      << <<"ask_equity", 51>>, <<"monthly_sales", 50>> >>,
      << <<"monthly_sales", 50>>, <<"ask_equity", 49>> >>,
      << <<"ask_amount", 0>>, <<"ask_equity", 0>> >> }

\* A canonical frame of n episodes with the investor fields of the roster.
RECURSIVE SharkFrame(_, _, _, _)
SharkFrame(n, shark_names, pres, amt) ==
    IF shark_names = <<>>
    THEN MkDF(n, << <<"industry", "obj", [i \in 1..n |-> IF i % 2 = 1 THEN "Tech" ELSE "Food"]>>,
                    <<"ask_amount", "num", Const(n, 4)>>,
                    <<"ask_equity", "num", Const(n, 10)>>,
                    <<"monthly_sales", "num", Const(n, 0)>> >>)
    ELSE LET k == Len(shark_names)
             df == SharkFrame(n, SubSeq(shark_names, 1, k - 1), pres, amt)
             with_present == IF pres[k] = <<>> THEN df
                             ELSE SetCol(df, lower(shark_names[k]) \o "_present", "num", pres[k])
         IN IF amt[k] = <<>> THEN with_present
            ELSE SetCol(with_present, lower(shark_names[k]) \o "_investment_amount",
                        "num", amt[k])

TrainedSharks(df0) ==
    Range(SelectSeq(TrainRoster, LAMBDA shark : has_model(add_invested(df0, TrainRoster), shark)))

TrainSharkModels ==
    /\ stage = "init"
    /\ \E n \in 1..MaxRows :
       \E pres \in [DOMAIN TrainRoster -> OptCol(n, {0, 1})],
          amt \in [DOMAIN TrainRoster -> OptCol(n, InvestedAmounts)] :
         \E top_features \in [TrainedSharks(SharkFrame(n, TrainRoster, pres, amt))
                                -> TopFeatureTables] :
            /\ rec' = SharkFrame(n, TrainRoster, pres, amt)
            /\ art' = train_shark_models(SharkFrame(n, TrainRoster, pres, amt), TrainRoster,
                                         top_features, pandas_bool)
    /\ stage' = "fitted"
    /\ UNCHANGED <<pandas_bool, out, mv_in, mv_out, store, call, result>>

PredictSharksTrained ==
    /\ stage = "fitted"
    /\ call.op = "none"
    /\ \E answers \in [DOMAIN art.shark_models -> Answers(SharkProbs)] :
         /\ call' = [NoCall EXCEPT !.op = "predict_sharks", !.answers.sharks = answers]
         /\ result' = predict_sharks_artifact(art, answers)
    /\ UNCHANGED <<pandas_bool, stage, art, rec, out, mv_in, mv_out, store>>

NextSharks == TrainSharkModels \/ PredictSharksTrained

SpecSharks == Init /\ [][NextSharks]_vars


\* predict_sharks was called on the artifact of the training run.
Predicted == stage = "fitted" /\ call.op = "predict_sharks" /\ result.raised = "none"

\* The episodes of the training frame where the investor was present, and
\* those of them where it invested.
PresentEpisodes(shark) ==
    IF HasCol(rec, lower(shark) \o "_present")
    THEN {i \in 1..rec.n : rec.val[lower(shark) \o "_present"][i] = 1}
    ELSE {}

InvestedEpisodes(shark) ==
    IF HasCol(rec, lower(shark) \o "_investment_amount")
    THEN {i \in PresentEpisodes(shark) : rec.val[lower(shark) \o "_investment_amount"][i] > 0}
    ELSE {}

\* The insight says the investor's historical investment rate, in tenths of
\* a percent rounded to the nearest.
SaysRate(insight) ==
    LET episodes == Cardinality(PresentEpisodes(insight.shark))
        invested == Cardinality(InvestedEpisodes(insight.shark))
    IN /\ 2 * (insight.investment_rate * episodes - 1000 * invested) <= episodes
       /\ 2 * (1000 * invested - insight.investment_rate * episodes) <= episodes

\* One insight for each investor of the artifact, in the artifact's order.
OneInsightEach ==
    /\ Len(result.value.insights) = Len(art.shark_models)
    /\ \A k \in DOMAIN art.shark_models :
          /\ result.value.insights[k].shark = art.shark_models[k]
          /\ art.insights[k].shark = art.shark_models[k]
          /\ SaysRate(result.value.insights[k])

IndustryIndicators(table) == {j \in DOMAIN table : StartsWith(table[j][1], "industry_")}

\* C21 as stated: one insight for each investor with a model and a summary,
\* with its investment rate, and the phrase decided by the feature of highest
\* importance alone: an industry preference if it is an industry indicator,
\* 'key factor' if its importance exceeds 0.05, the general profile otherwise.
C21_Original ==
    Predicted =>
        /\ OneInsightEach
        /\ \A k \in DOMAIN art.shark_models :
              LET top == art.insights[k].top_features[1]
              IN result.value.insights[k].parts =
                    IF 1 \in IndustryIndicators(art.insights[k].top_features)
                    THEN [kind |-> "prefers", subject |-> industry_name(top[1])]
                    ELSE IF top[2] > importance_threshold
                    THEN [kind |-> "key factor", subject |-> readable_feat(top[1])]
                    ELSE General

\* C21 amended: one insight for each investor with a model and a summary,
\* with its investment rate; the phrase is an industry preference, for the
\* industry indicator of highest importance, whenever the top features hold an
\* industry indicator at all, also below a feature of higher importance;
\* without any industry indicator it is 'key factor' for the feature of
\* highest importance if that importance exceeds 0.05, and the general profile
\* otherwise.
C21_IndustryFirst ==
    Predicted =>
        /\ OneInsightEach
        /\ \A k \in DOMAIN art.shark_models :
              LET table == art.insights[k].top_features
                  industries == IndustryIndicators(table)
              IN result.value.insights[k].parts =
                    IF industries # {}
                    THEN [kind |-> "prefers",
                          subject |-> industry_name(
                              table[CHOOSE j \in industries : \A l \in industries : j <= l][1])]
                    ELSE IF table[1][2] > importance_threshold
                    THEN [kind |-> "key factor", subject |-> readable_feat(table[1][1])]
                    ELSE General

\* An investor whose feature of highest importance is ask_amount, with an
\* industry indicator below it, is said to prefer that industry.
C21_Witness ==
    /\ Predicted
    /\ \E k \in DOMAIN art.shark_models :
          /\ art.insights[k].top_features = << <<"ask_amount", 400>>, <<"industry_Food", 100>> >>
          /\ result.value.insights[k].parts = [kind |-> "prefers", subject |-> "Food"]

\* An importance of exactly 0.05 gives the general profile, one just above it
\* a key factor.
C21_WitnessThreshold ==
    /\ Predicted
    /\ \E k, l \in DOMAIN art.shark_models :
          /\ art.insights[k].top_features[1] = <<"monthly_sales", 50>>
          /\ result.value.insights[k].parts = General
          /\ art.insights[l].top_features[1] = <<"ask_equity", 51>>
          /\ result.value.insights[l].parts = [kind |-> "key factor", subject |-> "Ask Equity"]

\* The investors that were present in an episode where they invested and in
\* one where they did not.
Trainable(shark) ==
    /\ InvestedEpisodes(shark) # {}
    /\ InvestedEpisodes(shark) # PresentEpisodes(shark)

\* C24 as stated: the investor artifact holds one classifier and one insights
\* summary for every investor of the roster, and predict_sharks returns a
\* probability for every investor of the roster.
C24_Original ==
    /\ stage = "fitted" =>
          /\ art.shark_models = TrainRoster
          /\ \A k \in DOMAIN TrainRoster : art.insights[k].shark = TrainRoster[k]
    /\ Predicted =>
          {e[1] : e \in Range(result.value.probabilities)} = Range(TrainRoster)

\* C24 amended: the investor artifact holds one classifier and one insights
\* summary (top features, historical investment rate) for exactly the investors
\* of the roster that were present in at least one episode where they invested
\* and one where they did not, in roster order, and predict_sharks returns a
\* probability for exactly those investors.
C24_TrainableOnly ==
    /\ stage = "fitted" =>
          /\ art.shark_models = SelectSeq(TrainRoster, Trainable)
          /\ Len(art.insights) = Len(art.shark_models)
          /\ \A k \in DOMAIN art.shark_models :
                /\ art.insights[k].shark = art.shark_models[k]
                /\ art.insights[k].top_features \in TopFeatureTables
                /\ art.insights[k].investment_rate =
                      <<Cardinality(InvestedEpisodes(art.shark_models[k])),
                        Cardinality(PresentEpisodes(art.shark_models[k]))>>
    /\ Predicted =>
          [k \in DOMAIN result.value.probabilities |-> result.value.probabilities[k][1]]
              = SelectSeq(TrainRoster, Trainable)

\* One investor of the roster got a classifier and the other, who invested in
\* every episode it was present in, did not; predict_sharks answered.
C24_Witness ==
    /\ Predicted
    /\ art.shark_models = <<"Aman">>
    /\ PresentEpisodes("Namita") # {}
    /\ InvestedEpisodes("Namita") = PresentEpisodes("Namita")
    /\ Len(result.value.probabilities) = 1

\* Every investor of the roster got a classifier.
C24_WitnessAll ==
    Predicted /\ art.shark_models = TrainRoster


(***************************************************************************)
(* create_canonical_targets on a frame of its own: as train_valuation.py   *)
(* calls it, on the adapter's frame, and as the fit pipeline calls it,     *)
(* after the missing-value step.                                           *)
(***************************************************************************)
DealAmounts == {NaN, 0, 50}
DealEquities == {NaN, 0, 10, 100, 200}
DealValuations == {NaN, 500}

TargetDF(n, amt, eq, dv) ==
    MkDF(n, << <<"ask_amount", "num", Const(n, 4)>>, <<"deal_amount", "num", amt>>,
               <<"deal_equity", "num", eq>>, <<"deal_valuation", "num", dv>> >>)

CreateTargets ==
    /\ call.op = "none"
    /\ \E n \in 1..MaxRows :
       \E amt \in OptCol(n, DealAmounts), eq \in OptCol(n, DealEquities),
          dv \in OptCol(n, DealValuations), in_pipeline \in BOOLEAN :
          LET df == TargetDF(n, amt, eq, dv)
          IN /\ mv_in' = df
             /\ mv_out' = create_canonical_targets(
                              IF in_pipeline THEN handle_missing_values_canonical(df) ELSE df)
             /\ call' = [NoCall EXCEPT !.op = IF in_pipeline THEN "preprocess_canonical"
                                               ELSE "train_valuation_model"]
    /\ UNCHANGED <<pandas_bool, stage, art, rec, out, store, result>>

NextTargets == CreateTargets

SpecTargets == InitMissing /\ [][NextTargets]_vars

\* The value of a deal field in row i of the frame given: missing when the
\* frame has no such column.
DealField(c, i) == IF HasCol(mv_in, c) THEN mv_in.val[c][i] ELSE NaN

Derivable(i) ==
    /\ DealField("deal_amount", i) # NaN /\ DealField("deal_amount", i) > 0
    /\ DealField("deal_equity", i) # NaN /\ DealField("deal_equity", i) > 0
    /\ DealField("deal_equity", i) <= 100

C22_WitnessEquity ==
    /\ call.op = "train_valuation_model" /\ mv_in.n = 2
    /\ ~HasCol(mv_in, "deal_valuation")
    /\ HasCol(mv_in, "deal_amount") /\ HasCol(mv_in, "deal_equity")
    /\ mv_in.val["deal_amount"] = <<50, 50>> /\ mv_in.val["deal_equity"] = <<200, 100>>
    /\ mv_out.val["valuation"] = <<NaN, 50>>


(***************************************************************************)
(* train_deal.py: the selection of the deal model among the candidates.    *)
(* A metric is in thousandths.  roc_auc_score on a test fold with a single *)
(* class raises ValueError or returns NaN, depending on the version of     *)
(* scikit-learn.                                                           *)
(***************************************************************************)
default_roc_auc == 500

\* models (train_deal.py:87-91), in the order of the dict.
Candidates == <<"Logistic Regression", "Random Forest", "Gradient Boosting">>

\* roc_auc_score(y_test, y_pred_proba) (train_deal.py:110).
roc_auc_score(score, defined, undefined_raises) ==
    IF defined THEN Ok(score)
    ELSE IF undefined_raises
    THEN Raise("ValueError", "Only one class present in y_true")
    ELSE Ok(NaN)

\* The results of the candidates (train_deal.py:97-122).
evaluate(accuracy, scores, defined, undefined_raises) ==
    [k \in DOMAIN Candidates |->
        [name |-> Candidates[k],
         accuracy |-> accuracy[k],
         roc_auc |-> IF roc_auc_score(scores[k], defined, undefined_raises).raised # "none"
                     THEN default_roc_auc
                     ELSE roc_auc_score(scores[k], defined, undefined_raises).value]]

\* max(keys, key=...): the first of the entries with the highest value.
first_max(entries, metric) ==
    entries[CHOOSE k \in DOMAIN entries :
               /\ \A j \in DOMAIN entries : entries[j][metric] <= entries[k][metric]
               /\ \A j \in DOMAIN entries : j < k => entries[j][metric] < entries[k][metric]]

\* Select best model (train_deal.py:129-142).
select_best(results) ==
    LET valid_results == SelectSeq(results, LAMBDA v : v.roc_auc # NaN /\ v.roc_auc > 0)
    IN IF valid_results # <<>>
       THEN [best_model_name |-> first_max(valid_results, "roc_auc").name,
             metric_name |-> "ROC-AUC",
             best_metric |-> first_max(valid_results, "roc_auc").roc_auc]
       ELSE [best_model_name |-> first_max(results, "accuracy").name,
             metric_name |-> "Accuracy",
             best_metric |-> first_max(results, "accuracy").accuracy]

Accuracies == {500, 750, 1000}
RocAucs == {0, 400, 900}

\* train_deal_model from the evaluation of the candidates on (train_deal.py:97-149).
TrainDealModel ==
    /\ call.op = "none"
    /\ \E accuracy \in [DOMAIN Candidates -> Accuracies], defined \in BOOLEAN,
          undefined_raises \in BOOLEAN :
       \E scores \in IF defined THEN [DOMAIN Candidates -> RocAucs]
                     ELSE {[k \in DOMAIN Candidates |-> NaN]} :
          /\ call' = [NoCall EXCEPT !.op = "train_deal_model",
                         !.answers = [accuracy |-> accuracy, scores |-> scores,
                                      defined |-> defined,
                                      undefined_raises |-> undefined_raises]]
          /\ result' = Ok(select_best(evaluate(accuracy, scores, defined, undefined_raises)))
    /\ UNCHANGED <<pandas_bool, stage, art, rec, out, mv_in, mv_out, store>>

NextSelect == TrainDealModel

SpecSelect == InitMissing /\ [][NextSelect]_vars

\* The position of the retained candidate.
Retained == CHOOSE k \in DOMAIN Candidates : Candidates[k] = result.value.best_model_name

\* C23: the retained deal model is the candidate with the highest ROC-AUC when
\* the metric is defined for the split and the candidate with the highest
\* accuracy when it is not; training does not fail on the undefined metric.
C23_Original ==
    call.op = "train_deal_model" =>
        /\ result.raised = "none"
        /\ IF call.answers.defined
           THEN \A k \in DOMAIN Candidates :
                   call.answers.scores[k] <= call.answers.scores[Retained]
           ELSE \A k \in DOMAIN Candidates :
                   call.answers.accuracy[k] <= call.answers.accuracy[Retained]


(***************************************************************************)
(* data_adapters/__init__.py: get_adapter and its cache _ADAPTERS.  An     *)
(* adapter instance is its class and the number of the call that created   *)
(* it.                                                                     *)
(***************************************************************************)
MaxCalls == 3

\* The modules of the package data_adapters and the adapter class of each.
AdapterModules == {"india", "us", "australia"}

AdapterClassOf(module) ==
    CASE module = "india" -> "IndiaAdapter"
      [] module = "us" -> "USAdapter"
      [] module = "australia" -> "AustraliaAdapter"
      [] OTHER -> "BaseAdapter"

\* importlib.import_module and getattr(module, f"{country}Adapter")
\* (data_adapters/__init__.py:32-40): the class instantiated.
adapter_class(country) ==
    IF lower(country) \notin AdapterModules THEN "BaseAdapter"
    ELSE IF country \o "Adapter" # AdapterClassOf(lower(country)) THEN "BaseAdapter"
    ELSE AdapterClassOf(lower(country))

\* get_adapter (data_adapters/__init__.py:14-42): the cache after the call.
get_adapter(adapters, country, call_no) ==
    IF lower(country) \in DOMAIN adapters THEN adapters
    ELSE [k \in DOMAIN adapters \cup {lower(country)} |->
             IF k = lower(country) THEN [class |-> adapter_class(country), created |-> call_no]
             ELSE adapters[k]]

CountryCasings == {"india", "India", "INDIA", "us", "US", "australia", "Australia", "Atlantis"}

GetAdapter ==
    /\ call.top_n < MaxCalls
    /\ \E country \in CountryCasings :
         /\ store' = get_adapter(store, country, call.top_n + 1)
         /\ call' = [NoCall EXCEPT !.op = "get_adapter", !.country = country,
                                   !.top_n = call.top_n + 1]
         /\ result' = Ok(get_adapter(store, country, call.top_n + 1)[lower(country)])
    /\ UNCHANGED <<pandas_bool, stage, art, rec, out, mv_in, mv_out>>

NextGetAdapter == GetAdapter

SpecGetAdapter == InitMissing /\ [][NextGetAdapter]_vars

\* C25: after any sequence of get_adapter calls with any mix of casings, the
\* adapter returned for a country is an instance of the country's own adapter
\* class whenever there is one, and a call for a country already asked for, in
\* any casing, returns the instance returned before.
C25_Original ==
    [][call'.op = "get_adapter" =>
          /\ lower(call'.country) \in AdapterModules =>
                result'.value.class = AdapterClassOf(lower(call'.country))
          /\ lower(call'.country) \in DOMAIN store =>
                result'.value = store[lower(call'.country)]]_vars


(***************************************************************************)
(* The confidence range of predict_valuation.                              *)
(***************************************************************************)
\* C26: for every value the valuation model gives, the confidence range
\* (lower, upper) returned by predict_valuation has lower <= valuation <= upper
\* (the valuation in thousandths, the range in ten-thousandths).
C26_Original ==
    (call.op = "predict_valuation" /\ result.raised = "none") =>
        /\ result.value.confidence_range[1] <= 10 * result.value.valuation
        /\ 10 * result.value.valuation <= result.value.confidence_range[2]


(***************************************************************************)
(* The investors in the response of /api/predict/all.                      *)
(***************************************************************************)
\* The response exposes investor probabilities, ranking or insights.
Exposed ==
    /\ call.op = "api_predict_all" /\ call.country # ""
    /\ DOMAIN result.body.sharks \cap InvestorFields # {}

DealSectionPositive ==
    /\ result.body.deal.available
    /\ result.body.deal.payload.prediction = 1
    /\ result.body.deal.payload.probability * 10 >= 3 * ProbScale

\* C27 as stated: the /api/predict/all response exposes the investors only if
\* the deal prediction was available in the same call with label 1 and
\* probability at least 0.3, and never when the deal section is unavailable.
C27_Original ==
    Exposed => DealSectionPositive

\* C27 amended: the /api/predict/all response exposes the investors
\* (sharks.no_deal = false, with probabilities, ranking and insights) only if
\* the deal prediction, when it is available in the same call, has label 1 and
\* probability at least 0.3; when the deal section is unavailable the gate does
\* not apply, and the investors are exposed whenever the investor prediction
\* is available.
C27_GateOnlyWhenDealAvailable ==
    /\ Exposed =>
          /\ ~result.body.sharks.no_deal
          /\ InvestorFields \subseteq DOMAIN result.body.sharks
          /\ result.body.deal.available => DealSectionPositive
    /\ (call.op = "api_predict_all" /\ ~DealScored
          /\ ArtifactPresent("sharks") /\ RecordPreprocessed) =>
          /\ ~result.body.deal.available
          /\ Exposed

\* The investor artifact is on disk and the deal artifact is not: the deal
\* section is unavailable and the investors are exposed.
C27_Witness ==
    /\ Exposed
    /\ ~ArtifactPresent("deal") /\ ArtifactPresent("sharks")
    /\ result.body.deal = [available |-> FALSE]
    /\ ~result.body.sharks.no_deal

\* The deal model fails on the record while the investor models score it.
C27_WitnessDealFails ==
    /\ Exposed
    /\ ArtifactPresent("deal") /\ call.answers.deal.kind = "raise"
    /\ ~result.body.deal.available

(***************************************************************************)
(* Train/serve consistency: a fit run on a training batch, then a          *)
(* transform-only run, with the artifacts of that fit, on one record of    *)
(* the batch (train_deal.py:57 and inference.py:62-72).                    *)
(***************************************************************************)
\* The one-row frame of record i of df.
RecordAt(df, i) ==
    [cols |-> df.cols,
     dt   |-> df.dt,
     n    |-> 1,
     val  |-> [c \in Range(df.cols) |-> <<df.val[c][i]>>]]

ServeRecord ==
    /\ stage = "fitted"
    /\ \E i \in 1..rec.n :
          /\ call' = [NoCall EXCEPT !.op = "preprocess_canonical",
                                    !.df = RecordAt(rec, i), !.top_n = i]
          /\ result' = preprocess_transform(RecordAt(rec, i), art.encoder_dict, art.scaler,
                                            art.feature_names, pandas_bool)
    /\ stage' = "served"
    /\ UNCHANGED <<pandas_bool, art, rec, out, mv_in, mv_out, store>>

NextServe == FitBatch \/ ServeRecord

SpecServe == Init /\ [][NextServe]_vars

Served == stage = "served"

\* The numeric feature columns in which the served record has no value.
MissingIn(r) == {c \in Range(r.cols) : r.dt[c] = "num" /\ r.val[c][1] = NaN}

\* The record's matrix as the transform-only run hands it to the scaling step.
ServedBeforeScaling ==
    Align(encode_reuse(DropOutcomes(select_canonical_features(
              handle_missing_values_canonical(call.df), FALSE)),
                       art.encoder_dict, pandas_bool),
          art.feature_names)

C28_WitnessMissing ==
    /\ Served /\ art.scaler.fitted /\ ~result.raised
    /\ rec.n = 2 /\ HasCol(rec, "ask_amount") /\ rec.val["ask_amount"] = <<NaN, 4>>
    /\ call.top_n = 1
    /\ out.X.val["ask_amount"][1][1] = 0
    /\ result.X.val["ask_amount"][1][1] < 0

\* A batch that left the scaler unfitted, whose record cannot be served.
C28_WitnessUnfitted ==
    /\ Served /\ ~art.scaler.fitted /\ result.raised

(***************************************************************************)
(* The fit pipeline of the three training runs on a canonical frame that   *)
(* carries, for every investor, the columns BaseAdapter.to_canonical       *)
(* writes: {investor}_present, _investment_amount and _investment_equity.  *)
(***************************************************************************)
\* df[mask] for the rows listed, in order.
TakeRows(df, rows) ==
    [cols |-> df.cols,
     dt   |-> df.dt,
     n    |-> Len(rows),
     val  |-> [c \in Range(df.cols) |-> [k \in DOMAIN rows |-> df.val[c][rows[k]]]]]

valuation_outcome_vars == {"deal", "deal_amount", "deal_equity", "deal_valuation"}

\* train_deal_model up to the feature matrix (train_deal.py:65-70).
deal_features(df, bool_dummies) ==
    [raised |-> FALSE, fit |-> preprocess_fit(df, bool_dummies)]

\* train_valuation_model up to the feature matrix (train_valuation.py:64-88):
\* raises ValueError when no row is a deal with a positive valuation.
valuation_features(df0, bool_dummies) ==
    LET df == create_canonical_targets(df0)
        rows == SelectSeq([i \in 1..df.n |-> i],
                          LAMBDA i : /\ df.val["deal"][i] = 1
                                     /\ df.val["valuation"][i] # NaN
                                     /\ df.val["valuation"][i] > 0)
    IN IF rows = <<>>
       THEN [raised |-> TRUE, fit |-> preprocess_fit(EmptyDF(0), bool_dummies)]
       ELSE [raised |-> FALSE,
             fit    |-> preprocess_fit(DropCols(TakeRows(df, rows), valuation_outcome_vars),
                                       bool_dummies)]

\* train_shark_models up to the feature matrix (train_sharks.py:68-85).
shark_features(df0, shark_names, bool_dummies) ==
    [raised |-> FALSE,
     fit    |-> preprocess_fit(DropCols(add_invested(df0, shark_names), shark_outcome_vars),
                               bool_dummies)]

FeatureRuns == {"deal", "valuation", "sharks"}

features_of(run, df, bool_dummies) ==
    IF run = "deal" THEN deal_features(df, bool_dummies)
    ELSE IF run = "valuation" THEN valuation_features(df, bool_dummies)
    ELSE shark_features(df, TrainRoster, bool_dummies)

\* The investor equity columns of the adapter, added to a frame.
RECURSIVE add_investment_equity(_, _, _)
add_investment_equity(df, shark_names, eq) ==
    IF shark_names = <<>> THEN df
    ELSE LET k == Len(shark_names)
             rest == add_investment_equity(df, SubSeq(shark_names, 1, k - 1), eq)
         IN IF eq[k] = <<>> THEN rest
            ELSE SetCol(rest, lower(shark_names[k]) \o "_investment_equity", "num", eq[k])

DealOutcome(n, with_outcome) ==
    IF with_outcome
    THEN << <<"deal_amount", "num", Const(n, 50)>>, <<"deal_equity", "num", Const(n, 10)>> >>
    ELSE <<>>

RECURSIVE add_columns(_, _)
add_columns(df, columns) ==
    IF columns = <<>> THEN df
    ELSE add_columns(SetCol(df, Head(columns)[1], Head(columns)[2], Head(columns)[3]),
                     Tail(columns))

CanonicalFrame(n, pres, amt, eq, with_outcome) ==
    add_columns(add_investment_equity(SharkFrame(n, TrainRoster, pres, amt), TrainRoster, eq),
                DealOutcome(n, with_outcome))

FitFeatures ==
    /\ stage = "init"
    /\ \E n \in 1..MaxRows, run \in FeatureRuns, with_outcome \in BOOLEAN :
       \E pres \in [DOMAIN TrainRoster -> OptCol(n, {0, 1})],
          amt \in [DOMAIN TrainRoster -> {<<>>, Const(n, 0), Const(n, 50)}],
          eq \in [DOMAIN TrainRoster -> {<<>>, Const(n, 10)}] :
            /\ rec' = CanonicalFrame(n, pres, amt, eq, with_outcome)
            /\ call' = [NoCall EXCEPT !.op = run]
            /\ out' = [raised |-> features_of(run, CanonicalFrame(n, pres, amt, eq, with_outcome),
                                              pandas_bool).raised,
                       X      |-> features_of(run, CanonicalFrame(n, pres, amt, eq, with_outcome),
                                              pandas_bool).fit.X]
    /\ art' = [art EXCEPT !.feature_names = out'.X.cols]
    /\ stage' = "fitted"
    /\ UNCHANGED <<pandas_bool, mv_in, mv_out, store, result>>

NextFeatures == FitFeatures

SpecFeatures == Init /\ [][NextFeatures]_vars

InvestorPrefixes == {lower(TrainRoster[k]) \o "_" : k \in DOMAIN TrainRoster}
InvestorOutcomeSuffixes == {"investment_amount", "investment_equity", "invested"}
InvestorOutcomeCols == {p \o x : p \in InvestorPrefixes, x \in InvestorOutcomeSuffixes}
InvestorField(c) == \E p \in InvestorPrefixes : StartsWith(c, p)

FeatureCols == Range(out.X.cols) \cup Range(art.feature_names)

\* C29: in the deal, valuation and investor training runs no column
\* {investor}_investment_amount, {investor}_investment_equity or
\* {investor}_invested is a column of the fit feature matrix or an entry of
\* feature_names; the only investor columns among the features are the
\* {investor}_present columns, and every one the frame has is a feature.
C29_NoInvestorOutcome ==
    (stage = "fitted" /\ ~out.raised) =>
        /\ FeatureCols \cap InvestorOutcomeCols = {}
        /\ \A c \in FeatureCols : InvestorField(c) => EndsWith(c, "_present")
        /\ \A c \in Range(rec.cols) : EndsWith(c, "_present") => c \in FeatureCols

\* The investor run on a frame with all three columns of Aman.
C29_Witness ==
    /\ stage = "fitted" /\ ~out.raised /\ call.op = "sharks"
    /\ HasCol(rec, "aman_present") /\ HasCol(rec, "aman_investment_amount")
    /\ HasCol(rec, "aman_investment_equity")
    /\ "aman_present" \in FeatureCols

\* The deal run and the valuation run on such a frame.
C29_WitnessDeal ==
    /\ stage = "fitted" /\ ~out.raised /\ call.op = "deal"
    /\ HasCol(rec, "namita_present") /\ HasCol(rec, "namita_investment_amount")
    /\ HasCol(rec, "deal_amount")
    /\ "namita_present" \in FeatureCols

C29_WitnessValuation ==
    /\ stage = "fitted" /\ ~out.raised /\ call.op = "valuation"
    /\ HasCol(rec, "namita_present") /\ HasCol(rec, "namita_investment_equity")
    /\ out.X.n = rec.n
    /\ "namita_present" \in FeatureCols

(***************************************************************************)
(* The master training run (train_all_countries.py): the countries of      *)
(* get_available_countries, and for each of them the four training         *)
(* scripts as child processes.  A child that exits with a non-zero status  *)
(* makes subprocess.run(check=True) raise CalledProcessError, which the    *)
(* script catches.                                                         *)
(***************************************************************************)
ConfigFiles == {"__init__.py", "india.yaml", "us.yaml", "australia.yaml", "US.yaml"}

\* os.listdir(config_dir): the files present, in an arbitrary order.
Listings == UNION {{l \in [1..Cardinality(F) -> F] : Range(l) = F} : F \in SUBSET ConfigFiles}

\* filename.replace('.yaml', '')
strip_yaml(filename) == SubSeq(filename, 1, Len(filename) - Len(".yaml"))

\* str.title() on the names at hand.
title(name) ==
    CASE name = "india" -> "India"
      [] name = "australia" -> "Australia"
      [] name = "US" -> "Us"
      [] OTHER -> name

country_of(filename) ==
    IF strip_yaml(filename) = "us" THEN "US" ELSE title(strip_yaml(filename))

\* The country names in the order Python compares strings.
CountryNameOrder == <<"Australia", "India", "US", "Us">>
NameRank(name) == CHOOSE k \in DOMAIN CountryNameOrder : CountryNameOrder[k] = name

\* A variant of the sort key that orders by name alone.
country_key_name_only(x) == <<FALSE, FALSE, x>>

\* key=lambda x: (x != 'India', x != 'US', x)
country_key(x) == <<x # "India", x # "US", x>>

\* Tuple comparison a <= b of two keys; False sorts before True.
KeyLeq(a, b) ==
    IF a[1] # b[1] THEN b[1]
    ELSE IF a[2] # b[2] THEN b[2]
    ELSE NameRank(a[3]) <= NameRank(b[3])

\* sorted(countries, key=...): stable.
RECURSIVE sorted_by_key(_)
sorted_by_key(items) ==
    IF items = <<>> THEN <<>>
    ELSE LET m == CHOOSE i \in DOMAIN items :
                    /\ \A j \in DOMAIN items : KeyLeq(country_key(items[i]), country_key(items[j]))
                    /\ \A j \in DOMAIN items :
                          j < i => ~KeyLeq(country_key(items[j]), country_key(items[i]))
             rest == [k \in 1..(Len(items) - 1) |-> IF k < m THEN items[k] ELSE items[k + 1]]
         IN <<items[m]>> \o sorted_by_key(rest)

get_available_countries(listing) ==
    LET yaml == SelectSeq(listing, LAMBDA filename :
                    EndsWith(filename, ".yaml") /\ filename # "__init__.py")
    IN sorted_by_key([k \in DOMAIN yaml |-> country_of(yaml[k])])

\* The four child processes of one country, in the order of the loop body.
TrainingSteps == <<"deal", "valuation", "sharks", "similarity">>

StepIndex(step) == CHOOSE k \in DOMAIN TrainingSteps : TrainingSteps[k] = step

\* countries = get_available_countries(), then the loop is entered, or left at
\* once when there is no country.
ListCountries ==
    /\ stage = "init"
    /\ \E listing \in Listings :
         LET countries == get_available_countries(listing)
         IN /\ store' = [files |-> Range(listing), countries |-> countries]
            /\ IF countries = <<>>
               THEN stage' = "complete" /\ call' = NoCall
               ELSE /\ stage' = "training"
                    /\ call' = [NoCall EXCEPT !.op = TrainingSteps[1],
                                              !.country = countries[1], !.top_n = 1]
    /\ result' = [log |-> <<>>, failures |-> 0]
    /\ UNCHANGED <<pandas_bool, art, rec, out, mv_in, mv_out>>

\* One try block: the child runs and exits with status zero or not; the
\* loop goes on to the next step, the next country, or the closing banner.
TrainStep ==
    /\ stage = "training"
    /\ \E exit_ok \in BOOLEAN :
         result' = [log      |-> Append(result.log, <<call.country, call.op>>),
                    failures |-> result.failures + (IF exit_ok THEN 0 ELSE 1)]
    /\ IF StepIndex(call.op) < Len(TrainingSteps)
       THEN /\ call' = [call EXCEPT !.op = TrainingSteps[StepIndex(call.op) + 1]]
            /\ stage' = stage
       ELSE IF call.top_n < Len(store.countries)
       THEN /\ call' = [call EXCEPT !.op = TrainingSteps[1],
                                    !.country = store.countries[call.top_n + 1],
                                    !.top_n = call.top_n + 1]
            /\ stage' = stage
       ELSE /\ call' = NoCall
            /\ stage' = "complete"
    /\ UNCHANGED <<pandas_bool, art, rec, out, mv_in, mv_out, store>>

NextTrainAll == ListCountries \/ TrainStep

SpecTrainAll == Init /\ [][NextTrainAll]_vars

\* Every child process exits, and the script goes on when it has.
SpecTrainAllLive == Init /\ [][NextTrainAll]_vars /\ WF_vars(NextTrainAll)

Started == stage \in {"training", "complete"}

\* The country files of the configuration directory.
YamlFiles == {f \in store.files : EndsWith(f, ".yaml")}

\* The attempts so far are made country by country, each country's four in
\* the order deal, valuation, sharks, similarity.
StepsInOrder ==
    \A p \in DOMAIN result.log :
        /\ result.log[p][2] = TrainingSteps[((p - 1) % Len(TrainingSteps)) + 1]
        /\ result.log[p][1] = result.log[p - ((p - 1) % Len(TrainingSteps))][1]

\* India's attempts come before all others, then those of US.
PreferredFirst ==
    \A p, q \in DOMAIN result.log :
        p < q => /\ result.log[q][1] = "India" => result.log[p][1] = "India"
                 /\ result.log[q][1] = "US" => result.log[p][1] \in {"India", "US"}

\* India is attempted when india.yaml is there, US when us.yaml is.
PreferredListed ==
    /\ "india.yaml" \in store.files => store.countries[1] = "India"
    /\ "us.yaml" \in store.files =>
          store.countries[IF "india.yaml" \in store.files THEN 2 ELSE 1] = "US"

\* A completed run has made all four attempts for every country file,
\* whatever the number of failures.
AllAttempted ==
    stage = "complete" =>
        /\ Len(result.log) = Len(TrainingSteps) * Cardinality(YamlFiles)
        /\ \A f \in YamlFiles : \A k \in DOMAIN TrainingSteps :
              \E p \in DOMAIN result.log : result.log[p] = <<country_of(f), TrainingSteps[k]>>

TrainingOrdered ==
    Started => StepsInOrder /\ PreferredFirst /\ PreferredListed /\ AllAttempted

\* C30: the master training run attempts the countries in the order India,
\* US, then the others, and for each country the four trainings in the order
\* deal, valuation, sharks, similarity; a failed step stops neither the later
\* steps of the country nor the later countries, and the run reaches its end.
C30_OrderedAndCompletes == [](TrainingOrdered) /\ <>(stage = "complete")

\* A completed run over India, US and two more countries in which steps failed.
C30_Witness ==
    /\ stage = "complete"
    /\ store.countries = <<"India", "US", "Australia", "Us">>
    /\ result.failures >= 2
    /\ Len(result.log) = Len(TrainingSteps) * Len(store.countries)

\* A run in which every step of every country failed.
C30_WitnessAllFailed ==
    /\ stage = "complete"
    /\ store.countries = <<"India", "US", "Australia">>
    /\ result.failures = Len(result.log)

====
